---------------------------- MODULE Spec2Model ----------------------------
(***************************************************************************)
(* Model of the text-scanning blueprint scraper                            *)
(* (src/src/blueprints/blueprint-scraper.ts), of the expiring cache store  *)
(* (src/src/config/app-config.ts) and of the HTTP routes that put the      *)
(* cache in front of the scraper (src/unnamed/part_003).                   *)
(*                                                                         *)
(* A JavaScript string is a sequence of one-character strings.  Positions  *)
(* are the 0-based positions of the source, -1 is indexOf's "not found".   *)
(* A document is a concatenation of at most a bounded number of literal    *)
(* fragments; the scans themselves work on the flat character sequence.    *)
(***************************************************************************)
EXTENDS Integers, Sequences, FiniteSets, TLC

VARIABLES
    op,        \* the operation that is running
    html,      \* its input text (for a fetching operation, the response's text)
    responseOk,        \* response.ok of the fetch
    includeBlueprint,  \* options.includeBlueprint of fetchBlueprintDetails
    pc,        \* "start", "scan" (inside a while loop), "done" or "failed" (thrown)
    cursor,    \* the loop's cursor (0-based position, or -1)
    depth,     \* the nesting depth of the balanced-region scan
    from,      \* start + marker.length of the balanced-region scan
    sections,  \* the sections pushed so far by a marker splitter
    out,       \* the value returned, once pc = "done"
    calls,     \* what searchBlueprints / fetchBlueprintDetails has called, in order
    entries,   \* the entries map of each MemoryCacheStore
    now,       \* Date.now()
    reqs,      \* the requests of the HTTP routes and how far each handler is
    got,       \* the last operation on the cache store and what it returned
    written    \* per key, the last set not followed by a delete or clear, with its time

input == <<op, html, responseOk, includeBlueprint>>

server == <<entries, now, reqs, got, written>>

vars ==
    <<op, html, responseOk, includeBlueprint, pc, cursor, depth, from, sections, out,
      calls, entries, now, reqs, got, written>>

(***************************************************************************)
(* String primitives of the runtime.                                       *)
(***************************************************************************)

Min(S) == CHOOSE x \in S : \A y \in S : x <= y

\* pat occurs in s at 0-based position i
StartsWithAt(s, pat, i) ==
    /\ i >= 0
    /\ i + Len(pat) <= Len(s)
    /\ \A k \in 1..Len(pat) : s[i + k] = pat[k]

\* every 0-based position at which pat occurs in s
Occurrences(s, pat) == {i \in 0..(Len(s) - Len(pat)) : StartsWithAt(s, pat, i)}

\* String.prototype.indexOf(pat, fromIndex) for a non-empty pat
IndexOf(s, pat, fromIndex) ==
    LET hits == {i \in fromIndex..(Len(s) - Len(pat)) : StartsWithAt(s, pat, i)}
    IN  IF hits = {} THEN -1 ELSE Min(hits)

\* String.prototype.slice(a, b) for 0 <= a <= b <= length
Slice(s, a, b) == SubSeq(s, a + 1, b)

\* T | null
Null == [found |-> FALSE, val |-> <<>>]
Some(v) == [found |-> TRUE, val |-> v]

(***************************************************************************)
(* The literals of the source.                                             *)
(***************************************************************************)

\* '<ul class="t-blueprint__requirements-data">'
listMarker ==
    <<"<","u","l"," ","c","l","a","s","s","=","\"","t","-","b","l","u","e","p","r","i","n","t",
      "_","_","r","e","q","u","i","r","e","m","e","n","t","s","-","d","a","t","a","\"",">">>

\* '<div class="t-blueprint__tags">'
tagSectionMarker ==
    <<"<","d","i","v"," ","c","l","a","s","s","=","\"","t","-","b","l","u","e","p","r","i","n",
      "t","_","_","t","a","g","s","\"",">">>

\* '<li class="o-blueprint-card factory"'
cardMarker ==
    <<"<","l","i"," ","c","l","a","s","s","=","\"","o","-","b","l","u","e","p","r","i","n","t",
      "-","c","a","r","d"," ","f","a","c","t","o","r","y","\"">>

\* '<li class="t-blueprint__requirements-entity">'
entityMarker ==
    <<"<","l","i"," ","c","l","a","s","s","=","\"","t","-","b","l","u","e","p","r","i","n","t",
      "_","_","r","e","q","u","i","r","e","m","e","n","t","s","-","e","n","t","i","t","y","\"",
      ">">>

\* 'data-blueprint-id="'
idAttrPrefix ==
    <<"d","a","t","a","-","b","l","u","e","p","r","i","n","t","-","i","d","=","\"">>

\* '<h2>'
h2Open ==
    <<"<","h","2",">">>

\* '<a '
anchorOpen ==
    <<"<","a"," ">>

\* '</a>'
anchorClose ==
    <<"<","/","a",">">>

\* 'by'
byCue ==
    <<"b","y">>

\* '<div class="o-blueprint-card__cover">'
coverMarker ==
    <<"<","d","i","v"," ","c","l","a","s","s","=","\"","o","-","b","l","u","e","p","r","i","n",
      "t","-","c","a","r","d","_","_","c","o","v","e","r","\"",">">>

\* '<a href="'
hrefPrefix ==
    <<"<","a"," ","h","r","e","f","=","\"">>

\* '<ul class="o-blueprint-card__tags">'
cardTagsMarker ==
    <<"<","u","l"," ","c","l","a","s","s","=","\"","o","-","b","l","u","e","p","r","i","n","t",
      "-","c","a","r","d","_","_","t","a","g","s","\"",">">>

\* '<li class="o-blueprint-card__tags-tag'
cardTagPrefix ==
    <<"<","l","i"," ","c","l","a","s","s","=","\"","o","-","b","l","u","e","p","r","i","n","t",
      "-","c","a","r","d","_","_","t","a","g","s","-","t","a","g">>

\* '</li>'
liClose ==
    <<"<","/","l","i",">">>

\* 'data-tippy-content="'
tippyPrefix ==
    <<"d","a","t","a","-","t","i","p","p","y","-","c","o","n","t","e","n","t","=","\"">>

\* '<div class="t-blueprint__requirements-entity__tally">'
tallyMarker ==
    <<"<","d","i","v"," ","c","l","a","s","s","=","\"","t","-","b","l","u","e","p","r","i","n",
      "t","_","_","r","e","q","u","i","r","e","m","e","n","t","s","-","e","n","t","i","t","y",
      "_","_","t","a","l","l","y","\"",">">>

\* 't-blueprint__requirements-entity__tally'
tallyClass ==
    <<"t","-","b","l","u","e","p","r","i","n","t","_","_","r","e","q","u","i","r","e","m","e",
      "n","t","s","-","e","n","t","i","t","y","_","_","t","a","l","l","y">>

\* '<ul class="t-blueprint__requirements-entity__recipes">'
recipesMarker ==
    <<"<","u","l"," ","c","l","a","s","s","=","\"","t","-","b","l","u","e","p","r","i","n","t",
      "_","_","r","e","q","u","i","r","e","m","e","n","t","s","-","e","n","t","i","t","y","_",
      "_","r","e","c","i","p","e","s","\"",">">>

\* '<li'
liOpen ==
    <<"<","l","i">>

\* 'class="t-blueprint__requirements-entity__recipe'
recipeClassPrefix ==
    <<"c","l","a","s","s","=","\"","t","-","b","l","u","e","p","r","i","n","t","_","_","r","e",
      "q","u","i","r","e","m","e","n","t","s","-","e","n","t","i","t","y","_","_","r","e","c",
      "i","p","e">>

\* '<div class="trix-content">'
trixMarker ==
    <<"<","d","i","v"," ","c","l","a","s","s","=","\"","t","r","i","x","-","c","o","n","t","e",
      "n","t","\"",">">>

\* '<div>'
divTag ==
    <<"<","d","i","v",">">>

\* '<textarea'
textareaOpen ==
    <<"<","t","e","x","t","a","r","e","a">>

\* 'data-clipboard-target="true"'
clipboardAttr ==
    <<"d","a","t","a","-","c","l","i","p","b","o","a","r","d","-","t","a","r","g","e","t","=",
      "\"","t","r","u","e","\"">>

\* '</textarea>'
textareaClose ==
    <<"<","/","t","e","x","t","a","r","e","a",">">>

Quote == <<"\"">>
Gt == <<">">>

ulOpen == <<"<","u","l">>
ulClose == <<"<","/","u","l",">">>
divOpen == <<"<","d","i","v">>
divClose == <<"<","/","d","i","v",">">>

\* the five character references of decodeHtmlEntities
entAmp == <<"&","a","m","p",";">>
entLt == <<"&","l","t",";">>
entGt == <<"&","g","t",";">>
entQuot == <<"&","q","u","o","t",";">>
entApos == <<"&","#","3","9",";">>

\* the characters \s and trim() take for white space that the documents use
Whitespace == {" ", "\t", "\n"}

Digits == <<"0","1","2","3","4","5","6","7","8","9">>
IsDigit(c) == \E d \in 1..10 : Digits[d] = c
DigitValue(c) == (CHOOSE d \in 1..10 : Digits[d] = c) - 1

(***************************************************************************)
(* Text helpers: decodeHtmlEntities, normalizeText, parseCountFromHtml.    *)
(***************************************************************************)

\* s.replace(/pat/g, rep) for a literal pat: left to right, non-overlapping,
\* the replacement text is not scanned again by the same call
RECURSIVE ReplaceFrom(_, _, _, _)
ReplaceFrom(s, pat, rep, i) ==
    IF i >= Len(s) THEN <<>>
    ELSE IF StartsWithAt(s, pat, i) THEN rep \o ReplaceFrom(s, pat, rep, i + Len(pat))
    ELSE <<s[i + 1]>> \o ReplaceFrom(s, pat, rep, i + 1)

ReplaceAll(s, pat, rep) == ReplaceFrom(s, pat, rep, 0)

\* decodeHtmlEntities: five replace calls chained, each over the previous result
DecodeHtmlEntities(value) ==
    ReplaceAll(ReplaceAll(ReplaceAll(ReplaceAll(ReplaceAll(value,
        entAmp, <<"&">>), entLt, <<"<">>), entGt, <<">">>), entQuot, <<"\"">>),
        entApos, <<"'">>)

\* s.replace(/\s+/g, " ")
RECURSIVE CollapseFrom(_, _)
CollapseFrom(s, i) ==
    IF i > Len(s) THEN <<>>
    ELSE IF s[i] \in Whitespace
    THEN IF i > 1 /\ s[i - 1] \in Whitespace
         THEN CollapseFrom(s, i + 1)
         ELSE <<" ">> \o CollapseFrom(s, i + 1)
    ELSE <<s[i]>> \o CollapseFrom(s, i + 1)

CollapseWhitespace(s) == CollapseFrom(s, 1)

\* String.prototype.trim()
Trim(s) ==
    LET keep == {i \in 1..Len(s) : s[i] \notin Whitespace}
    IN  IF keep = {} THEN <<>>
        ELSE SubSeq(s, Min(keep), CHOOSE x \in keep : \A y \in keep : y <= x)

\* s.replace(/\s\s/g, " ")
RECURSIVE CollapsePairsFrom(_, _)
CollapsePairsFrom(s, i) ==
    IF i > Len(s) THEN <<>>
    ELSE IF i < Len(s) /\ s[i] \in Whitespace /\ s[i + 1] \in Whitespace
    THEN <<" ">> \o CollapsePairsFrom(s, i + 2)
    ELSE <<s[i]>> \o CollapsePairsFrom(s, i + 1)

\* normalizeText collapsing white space two characters at a time
NormalizeTextPairs(value) == Trim(CollapsePairsFrom(DecodeHtmlEntities(value), 1))

NormalizeText(value) == Trim(CollapseWhitespace(DecodeHtmlEntities(value)))

\* value.replace(/<[^>]+>/g, " "): "<", one or more characters other than ">",
\* then ">"
RECURSIVE StripTagsFrom(_, _)
StripTagsFrom(s, i) ==
    IF i >= Len(s) THEN <<>>
    ELSE LET close == IndexOf(s, <<">">>, i + 1)
         IN  IF s[i + 1] = "<" /\ close > i + 1
             THEN <<" ">> \o StripTagsFrom(s, close + 1)
             ELSE <<s[i + 1]>> \o StripTagsFrom(s, i + 1)

StripTags(s) == StripTagsFrom(s, 0)

\* Number.parseInt(digits, 10) of a run of decimal digits
RECURSIVE ParseInt(_)
ParseInt(ds) ==
    IF ds = <<>> THEN 0
    ELSE ParseInt(SubSeq(ds, 1, Len(ds) - 1)) * 10 + DigitValue(ds[Len(ds)])

\* text.match(/\d+/): the leftmost maximal run of digits, or no match
MatchDigits(text) ==
    LET ds == {i \in 1..Len(text) : IsDigit(text[i])}
    IN  IF ds = {} THEN Null
        ELSE LET first == Min(ds)
                 stop == Min({j \in (first + 1)..(Len(text) + 1) :
                                 j = Len(text) + 1 \/ ~IsDigit(text[j])})
             IN  Some(SubSeq(text, first, stop - 1))

\* parseCountFromHtml without the tag stripping
ParseCountFromHtmlKeepTags(value) ==
    LET match == MatchDigits(NormalizeText(value))
    IN  IF match.found THEN ParseInt(match.val) ELSE 0

ParseCountFromHtml(value) ==
    LET text == NormalizeText(StripTags(value))
        match == MatchDigits(text)
    IN  IF match.found THEN ParseInt(match.val) ELSE 0

(***************************************************************************)
(* Balanced-region scan: extractRequirementsListHtml and                   *)
(* extractBlueprintTagSection are the same loop over two tag families.     *)
(***************************************************************************)

\* The marker, the opening prefix and the closing tag of each scan, and the
\* number of characters the cursor moves past each.
RegionMarker(o) ==
    IF o = "extractRequirementsListHtml" THEN listMarker ELSE tagSectionMarker
RegionOpen(o) == IF o = "extractRequirementsListHtml" THEN ulOpen ELSE divOpen
RegionClose(o) == IF o = "extractRequirementsListHtml" THEN ulClose ELSE divClose
\* the cursor left on the opening prefix it has just counted: cursor = nextOpen
OpenSkipNone(o) == 0

OpenSkip(o) == IF o = "extractRequirementsListHtml" THEN 3 ELSE 4
CloseSkip(o) == IF o = "extractRequirementsListHtml" THEN 5 ELSE 6

\* The statements before the loop: find the marker, set cursor and depth.
RegionEnter(o, s) ==
    LET start == IndexOf(s, RegionMarker(o), 0)
    IN  IF start = -1
        THEN [pc |-> "done", cursor |-> 0, depth |-> 0, from |-> 0, out |-> Null]
        ELSE [pc |-> "scan", cursor |-> start + Len(RegionMarker(o)), depth |-> 1,
              from |-> start + Len(RegionMarker(o)), out |-> Null]

\* RegionIterate without the depth count: the first closing tag ends the region.
RegionIterateFirstClose(o, s, st) ==
    LET nextClose == IndexOf(s, RegionClose(o), st.cursor)
    IN  IF ~(st.cursor < Len(s)) \/ nextClose = -1
        THEN [st EXCEPT !.pc = "done", !.out = Null]
        ELSE [st EXCEPT !.pc = "done", !.depth = 0,
                        !.out = Some(Slice(s, st.from, nextClose))]

\* RegionIterate testing the depth before it counts the closing tag down:
\* if (depth === 0) return ...; depth -= 1
RegionIterateLateClose(o, s, st) ==
    IF ~(st.cursor < Len(s))
    THEN [st EXCEPT !.pc = "done", !.out = Null]
    ELSE
    LET nextOpen == IndexOf(s, RegionOpen(o), st.cursor)
        nextClose == IndexOf(s, RegionClose(o), st.cursor)
    IN  IF nextClose = -1
        THEN [st EXCEPT !.pc = "done", !.out = Null]
        ELSE IF nextOpen # -1 /\ nextOpen < nextClose
        THEN [st EXCEPT !.depth = st.depth + 1, !.cursor = nextOpen + OpenSkip(o)]
        ELSE IF st.depth = 0
        THEN [st EXCEPT !.pc = "done", !.out = Some(Slice(s, st.from, nextClose))]
        ELSE [st EXCEPT !.depth = st.depth - 1, !.cursor = nextClose + CloseSkip(o)]

\* The loop test and one iteration of the body, from the state st.
RegionIterate(o, s, st) ==
    IF ~(st.cursor < Len(s))
    THEN [st EXCEPT !.pc = "done", !.out = Null]
    ELSE
    LET nextOpen == IndexOf(s, RegionOpen(o), st.cursor)
        nextClose == IndexOf(s, RegionClose(o), st.cursor)
    IN  IF nextClose = -1
        THEN [st EXCEPT !.pc = "done", !.out = Null]
        ELSE IF nextOpen # -1 /\ nextOpen < nextClose
        THEN [st EXCEPT !.depth = st.depth + 1, !.cursor = nextOpen + OpenSkip(o)]
        ELSE IF st.depth - 1 = 0
        THEN [st EXCEPT !.pc = "done", !.depth = 0,
                        !.out = Some(Slice(s, st.from, nextClose))]
        ELSE [st EXCEPT !.depth = st.depth - 1, !.cursor = nextClose + CloseSkip(o)]

RECURSIVE RegionRun(_, _, _)
RegionRun(o, s, st) ==
    IF st.pc = "done" THEN st.out ELSE RegionRun(o, s, RegionIterate(o, s, st))

ExtractRequirementsListHtml(s) ==
    RegionRun("extractRequirementsListHtml", s,
              RegionEnter("extractRequirementsListHtml", s))

ExtractBlueprintTagSection(s) ==
    RegionRun("extractBlueprintTagSection", s,
              RegionEnter("extractBlueprintTagSection", s))

(***************************************************************************)
(* Marker section splitter: extractBlueprintCardSections and               *)
(* extractRequirementEntitySections are the same loop over two markers.    *)
(***************************************************************************)

SplitMarker(o) ==
    IF o = "extractBlueprintCardSections" THEN cardMarker ELSE entityMarker

\* The statements before the loop.
SplitEnter(o, s) ==
    [pc |-> "scan", cursor |-> IndexOf(s, SplitMarker(o), 0), sections |-> <<>>,
     out |-> Null]

\* SplitIterate with every section running to the end of the document.
SplitIterateToEnd(o, s, st) ==
    IF ~(st.cursor # -1)
    THEN [st EXCEPT !.pc = "done", !.out = Some(st.sections)]
    ELSE
    LET nextCursor == IndexOf(s, SplitMarker(o), st.cursor + Len(SplitMarker(o)))
    IN  [st EXCEPT !.sections = Append(st.sections, Slice(s, st.cursor, Len(s))),
                   !.cursor = nextCursor]

\* The loop test and one iteration of the body; after the loop, the return.
SplitIterate(o, s, st) ==
    IF ~(st.cursor # -1)
    THEN [st EXCEPT !.pc = "done", !.out = Some(st.sections)]
    ELSE
    LET nextCursor == IndexOf(s, SplitMarker(o), st.cursor + Len(SplitMarker(o)))
        end == IF nextCursor = -1 THEN Len(s) ELSE nextCursor
    IN  [st EXCEPT !.sections = Append(st.sections, Slice(s, st.cursor, end)),
                   !.cursor = nextCursor]

RECURSIVE SplitRun(_, _, _)
SplitRun(o, s, st) ==
    IF st.pc = "done" THEN st.out.val ELSE SplitRun(o, s, SplitIterate(o, s, st))

ExtractBlueprintCardSections(s) ==
    SplitRun("extractBlueprintCardSections", s,
             SplitEnter("extractBlueprintCardSections", s))

ExtractRequirementEntitySections(s) ==
    SplitRun("extractRequirementEntitySections", s,
             SplitEnter("extractRequirementEntitySections", s))

(***************************************************************************)
(* Listing: parseBlueprintCard, extractTags, searchBlueprints.             *)
(***************************************************************************)

\* the 0-based position of the first character at or after i that is no digit
DigitRunEnd(s, i) ==
    Min({j \in i..Len(s) : j = Len(s) \/ ~IsDigit(s[j + 1])})

\* cardHtml.match(/data-blueprint-id="(\d+)"/): group 1 of the leftmost match
MatchBlueprintId(s) ==
    LET ok(p) == LET b == p + Len(idAttrPrefix)
                     e == DigitRunEnd(s, b)
                 IN  e > b /\ StartsWithAt(s, Quote, e)
        hits == {p \in Occurrences(s, idAttrPrefix) : ok(p)}
    IN  IF hits = {} THEN Null
        ELSE LET b == Min(hits) + Len(idAttrPrefix)
             IN  Some(Slice(s, b, DigitRunEnd(s, b)))

\* the rest of a match once "<a " was found at a: [^>]*>([\s\S]*?)<\/a>
AnchorText(s, a) ==
    LET k == IndexOf(s, Gt, a + Len(anchorOpen))
        e == IF k = -1 THEN -1 ELSE IndexOf(s, anchorClose, k + 1)
    IN  IF e = -1 THEN Null ELSE Some(Slice(s, k + 1, e))

\* cardHtml.match(/<h2>[\s\S]*?<a [^>]*>([\s\S]*?)<\/a>/)
MatchCardName(s) ==
    LET i == IndexOf(s, h2Open, 0)
        a == IF i = -1 THEN -1 ELSE IndexOf(s, anchorOpen, i + Len(h2Open))
    IN  IF a = -1 THEN Null ELSE AnchorText(s, a)

\* the 0-based position of the first character at or after i that is no white space
WhitespaceRunEnd(s, i) ==
    Min({j \in i..Len(s) : j = Len(s) \/ s[j + 1] \notin Whitespace})

\* cardHtml.match(/by\s*<a [^>]*>([\s\S]*?)<\/a>/)
MatchCardAuthor(s) ==
    LET anchorAfter(p) == WhitespaceRunEnd(s, p + Len(byCue))
        hits == {p \in Occurrences(s, byCue) :
                    /\ StartsWithAt(s, anchorOpen, anchorAfter(p))
                    /\ AnchorText(s, anchorAfter(p)).found}
    IN  IF hits = {} THEN Null ELSE AnchorText(s, anchorAfter(Min(hits)))

\* cardHtml.match(/<div class="o-blueprint-card__cover">[\s\S]*?<a href="([^"]+)"/)
MatchCardUrl(s) ==
    LET i == IndexOf(s, coverMarker, 0)
        value(h) == h + Len(hrefPrefix)
        hits == {h \in Occurrences(s, hrefPrefix) :
                    /\ i # -1
                    /\ h >= i + Len(coverMarker)
                    /\ IndexOf(s, Quote, value(h)) > value(h)}
    IN  IF hits = {} THEN Null
        ELSE Some(Slice(s, value(Min(hits)), IndexOf(s, Quote, value(Min(hits)))))

\* cardHtml.match(/<ul class="o-blueprint-card__tags">([\s\S]*?)<\/ul>/)
MatchCardTags(s) ==
    LET i == IndexOf(s, cardTagsMarker, 0)
        e == IF i = -1 THEN -1 ELSE IndexOf(s, ulClose, i + Len(cardTagsMarker))
    IN  IF e = -1 THEN Null ELSE Some(Slice(s, i + Len(cardTagsMarker), e))

\* group 1 of every match of
\* /<li class="o-blueprint-card__tags-tag[^"]*">([\s\S]*?)<\/li>/g from pos on
RECURSIVE CardTagMatches(_, _)
CardTagMatches(s, pos) ==
    LET q(i) == IndexOf(s, Quote, i + Len(cardTagPrefix))
        hits == {i \in Occurrences(s, cardTagPrefix) :
                    /\ i >= pos
                    /\ q(i) # -1
                    /\ StartsWithAt(s, Gt, q(i) + 1)
                    /\ IndexOf(s, liClose, q(i) + 2) # -1}
    IN  IF hits = {} THEN <<>>
        ELSE LET b == q(Min(hits)) + 2
                 e == IndexOf(s, liClose, b)
             IN  <<Slice(s, b, e)>> \o CardTagMatches(s, e + Len(liClose))

\* the texts of ts normalized, the empty ones left out
NormalizedNonEmpty(ts) ==
    SelectSeq([k \in 1..Len(ts) |-> NormalizeText(ts[k])], LAMBDA t : Len(t) > 0)

ExtractTags(tagsHtml) == NormalizedNonEmpty(CardTagMatches(tagsHtml, 0))

OrEmpty(m) == IF m.found THEN m.val ELSE <<>>

\* parseBlueprintCard giving a card without id the id ""
ParseBlueprintCardDefaultId(cardHtml) ==
    LET tagsMatch == MatchCardTags(cardHtml)
        urlMatch == MatchCardUrl(cardHtml)
    IN  Some([id |-> OrEmpty(MatchBlueprintId(cardHtml)),
              name |-> NormalizeText(OrEmpty(MatchCardName(cardHtml))),
              author |-> NormalizeText(OrEmpty(MatchCardAuthor(cardHtml))),
              tags |-> IF tagsMatch.found /\ tagsMatch.val # <<>>
                       THEN ExtractTags(tagsMatch.val) ELSE <<>>,
              url |-> IF urlMatch.found
                      THEN Trim(DecodeHtmlEntities(urlMatch.val)) ELSE <<>>])

ParseBlueprintCard(cardHtml) ==
    LET idMatch == MatchBlueprintId(cardHtml)
        tagsMatch == MatchCardTags(cardHtml)
        urlMatch == MatchCardUrl(cardHtml)
    IN  IF ~idMatch.found THEN Null
        ELSE Some([id |-> idMatch.val,
                   name |-> NormalizeText(OrEmpty(MatchCardName(cardHtml))),
                   author |-> NormalizeText(OrEmpty(MatchCardAuthor(cardHtml))),
                   tags |-> IF tagsMatch.found /\ tagsMatch.val # <<>>
                            THEN ExtractTags(tagsMatch.val) ELSE <<>>,
                   url |-> IF urlMatch.found
                           THEN Trim(DecodeHtmlEntities(urlMatch.val)) ELSE <<>>])

\* xs.map(f).filter(x => x !== null)
MapNonNull(f(_), xs) ==
    LET ys == SelectSeq([k \in 1..Len(xs) |-> f(xs[k])], LAMBDA y : y.found)
    IN  [k \in 1..Len(ys) |-> ys[k].val]

Reverse(xs) == [k \in 1..Len(xs) |-> xs[Len(xs) + 1 - k]]

\* the parsing of searchBlueprints with the cards collected last to first
ParseListingReversed(s) ==
    Reverse(MapNonNull(ParseBlueprintCard, ExtractBlueprintCardSections(s)))

\* searchBlueprints after the fetch: the cards of the document, those without
\* id left out
ParseListing(s) == MapNonNull(ParseBlueprintCard, ExtractBlueprintCardSections(s))

(***************************************************************************)
(* Detail page: extractBlueprintText, extractBlueprintRequirements,        *)
(* extractBlueprintTagNames, extractBlueprintDescription.                  *)
(***************************************************************************)

\* html.match(/<textarea[^>]*data-clipboard-target="true"[^>]*>([\s\S]*?)<\/textarea>/)
MatchBlueprintText(s) ==
    LET gt(i) == IndexOf(s, Gt, i + Len(textareaOpen))
        hits == {i \in Occurrences(s, textareaOpen) :
                    /\ gt(i) # -1
                    /\ \E j \in Occurrences(s, clipboardAttr) :
                          i + Len(textareaOpen) <= j /\ j + Len(clipboardAttr) <= gt(i)
                    /\ IndexOf(s, textareaClose, gt(i) + 1) # -1}
    IN  IF hits = {} THEN Null
        ELSE LET b == gt(Min(hits)) + 1
             IN  Some(Slice(s, b, IndexOf(s, textareaClose, b)))

ExtractBlueprintText(s) ==
    LET blueprintMatch == MatchBlueprintText(s)
    IN  IF ~blueprintMatch.found \/ blueprintMatch.val = <<>> THEN <<>>
        ELSE Trim(DecodeHtmlEntities(blueprintMatch.val))

\* the leftmost match of /data-tippy-content="([^"]+)"/ at or after pos:
\* the positions of group 1 and of the closing quote
TippyFrom(s, pos) ==
    LET value(h) == h + Len(tippyPrefix)
        hits == {h \in Occurrences(s, tippyPrefix) :
                    h >= pos /\ IndexOf(s, Quote, value(h)) > value(h)}
    IN  IF hits = {} THEN Null
        ELSE Some([b |-> value(Min(hits)), e |-> IndexOf(s, Quote, value(Min(hits)))])

\* entityHtml.match(/<div class="t-blueprint__requirements-entity__tally">([\s\S]*?)<\/div>/)
MatchTally(s) ==
    LET i == IndexOf(s, tallyMarker, 0)
        e == IF i = -1 THEN -1 ELSE IndexOf(s, divClose, i + Len(tallyMarker))
    IN  IF e = -1 THEN Null ELSE Some(Slice(s, i + Len(tallyMarker), e))

\* entityHtml.match(/t-blueprint__requirements-entity__tally[\s\S]*?data-tippy-content="([^"]+)"/)
MatchEntityName(s) ==
    LET i == IndexOf(s, tallyClass, 0)
        m == IF i = -1 THEN Null ELSE TippyFrom(s, i + Len(tallyClass))
    IN  IF m.found THEN Some(Slice(s, m.val.b, m.val.e)) ELSE Null

\* entityHtml.match(/<ul class="t-blueprint__requirements-entity__recipes">([\s\S]*?)<\/ul>/)
MatchRecipes(s) ==
    LET i == IndexOf(s, recipesMarker, 0)
        e == IF i = -1 THEN -1 ELSE IndexOf(s, ulClose, i + Len(recipesMarker))
    IN  IF e = -1 THEN Null ELSE Some(Slice(s, i + Len(recipesMarker), e))

\* the leftmost match, at or after pos, of
\* /<li[^>]*class="t-blueprint__requirements-entity__recipe[^"]*"[^>]*>([\s\S]*?)<\/li>/
\* as the positions of the match (b, e) and of group 1 (gb, ge)
RecipeItemFrom(s, pos) ==
    LET tagEnd(i) == LET g == IndexOf(s, Gt, i + Len(liOpen))
                     IN  IF g = -1 THEN Len(s) ELSE g
        \* the class attributes inside the tag opened at i that let the rest match
        classes(i) == {j \in Occurrences(s, recipeClassPrefix) :
                          /\ i + Len(liOpen) <= j
                          /\ j <= tagEnd(i)
                          /\ LET q == IndexOf(s, Quote, j + Len(recipeClassPrefix))
                                 g == IF q = -1 THEN -1 ELSE IndexOf(s, Gt, q + 1)
                             IN  g # -1 /\ IndexOf(s, liClose, g + 1) # -1}
        hits == {i \in Occurrences(s, liOpen) : i >= pos /\ classes(i) # {}}
    IN  IF hits = {} THEN Null
        ELSE LET i == Min(hits)
                 \* [^>]* is greedy: the last class attribute that works
                 j == CHOOSE x \in classes(i) : \A y \in classes(i) : y <= x
                 q == IndexOf(s, Quote, j + Len(recipeClassPrefix))
                 g == IndexOf(s, Gt, q + 1)
                 e == IndexOf(s, liClose, g + 1)
             IN  Some([b |-> i, e |-> e + Len(liClose), gb |-> g + 1, ge |-> e])

\* one recipe item: the name of match[0], the count of match[1]
RecipeOf(s, m) ==
    LET entryHtml == Slice(s, m.b, m.e)
        nameMatch == TippyFrom(entryHtml, 0)
    IN  [name |-> IF nameMatch.found
                  THEN Trim(DecodeHtmlEntities(
                           Slice(entryHtml, nameMatch.val.b, nameMatch.val.e)))
                  ELSE <<>>,
         count |-> ParseCountFromHtml(Slice(s, m.gb, m.ge))]

\* every recipe item of recipesHtml from pos on, in the order of the matches
RECURSIVE RecipeItemsFrom(_, _)
RecipeItemsFrom(s, pos) ==
    LET m == RecipeItemFrom(s, pos)
    IN  IF ~m.found THEN <<>>
        ELSE <<RecipeOf(s, m.val)>> \o RecipeItemsFrom(s, m.val.e)

\* the loop of extractRecipeEntries over the items: continue or push
RECURSIVE RecipeLoop(_, _)
RecipeLoop(items, recipes) ==
    IF items = <<>> THEN recipes
    ELSE LET name == Head(items).name
             count == Head(items).count
         IN  IF name = <<>> \/ count = 0
             THEN RecipeLoop(Tail(items), recipes)
             ELSE RecipeLoop(Tail(items), Append(recipes, [name |-> name, count |-> count]))

\* extractRecipeEntries skipping an item only when both its name and its count
\* are missing: if (!name && count === 0) continue
ExtractRecipeEntriesLenient(recipesHtml) ==
    SelectSeq(RecipeItemsFrom(recipesHtml, 0), LAMBDA r : ~(r.name = <<>> /\ r.count = 0))

ExtractRecipeEntries(recipesHtml) == RecipeLoop(RecipeItemsFrom(recipesHtml, 0), <<>>)

\* parseRequirementEntity returning null for a count of 0 as well:
\* if (!name || count === 0) return null
ParseRequirementEntityStrict(entityHtml) ==
    LET tallyMatch == MatchTally(entityHtml)
        nameMatch == MatchEntityName(entityHtml)
        name == IF nameMatch.found
                THEN Trim(DecodeHtmlEntities(nameMatch.val)) ELSE <<>>
        count == IF tallyMatch.found /\ tallyMatch.val # <<>>
                 THEN ParseCountFromHtml(tallyMatch.val) ELSE 0
        recipesMatch == MatchRecipes(entityHtml)
    IN  IF name = <<>> \/ count = 0 THEN Null
        ELSE Some([name |-> name,
                   count |-> count,
                   recipes |-> IF recipesMatch.found /\ recipesMatch.val # <<>>
                               THEN ExtractRecipeEntries(recipesMatch.val) ELSE <<>>])

ParseRequirementEntity(entityHtml) ==
    LET tallyMatch == MatchTally(entityHtml)
        nameMatch == MatchEntityName(entityHtml)
        name == IF nameMatch.found
                THEN Trim(DecodeHtmlEntities(nameMatch.val)) ELSE <<>>
        count == IF tallyMatch.found /\ tallyMatch.val # <<>>
                 THEN ParseCountFromHtml(tallyMatch.val) ELSE 0
        recipesMatch == MatchRecipes(entityHtml)
    IN  IF name = <<>> THEN Null
        ELSE Some([name |-> name,
                   count |-> count,
                   recipes |-> IF recipesMatch.found /\ recipesMatch.val # <<>>
                               THEN ExtractRecipeEntries(recipesMatch.val) ELSE <<>>])

\* extractBlueprintRequirements going on with "" for a list that was not found
ExtractBlueprintRequirementsUnguarded(s) ==
    LET listHtml == ExtractRequirementsListHtml(s)
    IN  MapNonNull(ParseRequirementEntity,
                   ExtractRequirementEntitySections(IF listHtml.found THEN listHtml.val ELSE s))

ExtractBlueprintRequirements(s) ==
    LET listHtml == ExtractRequirementsListHtml(s)
    IN  IF ~listHtml.found \/ listHtml.val = <<>> THEN <<>>
        ELSE MapNonNull(ParseRequirementEntity,
                        ExtractRequirementEntitySections(listHtml.val))

\* group 1 of every match of /data-tippy-content="([^"]+)"/g from pos on
RECURSIVE TippyMatches(_, _)
TippyMatches(s, pos) ==
    LET m == TippyFrom(s, pos)
    IN  IF ~m.found THEN <<>>
        ELSE <<Slice(s, m.val.b, m.val.e)>> \o TippyMatches(s, m.val.e + 1)

ExtractBlueprintTagNames(s) ==
    LET tagSection == ExtractBlueprintTagSection(s)
    IN  IF ~tagSection.found \/ tagSection.val = <<>> THEN <<>>
        ELSE NormalizedNonEmpty(TippyMatches(tagSection.val, 0))

\* html.match(/<div class="trix-content">[\s\S]*?<div>([\s\S]*?)<\/div>/)
MatchDescription(s) ==
    LET i == IndexOf(s, trixMarker, 0)
        d == IF i = -1 THEN -1 ELSE IndexOf(s, divTag, i + Len(trixMarker))
        e == IF d = -1 THEN -1 ELSE IndexOf(s, divClose, d + Len(divTag))
    IN  IF e = -1 THEN Null ELSE Some(Slice(s, d + Len(divTag), e))

ExtractBlueprintDescription(s) ==
    LET descriptionMatch == MatchDescription(s)
    IN  IF ~descriptionMatch.found \/ descriptionMatch.val = <<>> THEN <<>>
        ELSE NormalizeText(StripTags(descriptionMatch.val))

\* fetchBlueprintDetails extracting the payload whatever the flag says
ParseDetailsAlwaysText(s, include) ==
    [blueprint |-> ExtractBlueprintText(s),
     requirements |-> ExtractBlueprintRequirements(s),
     tags |-> ExtractBlueprintTagNames(s),
     description |-> ExtractBlueprintDescription(s)]

\* fetchBlueprintDetails giving up on the tags and the description when the
\* requirements list is not found
ParseDetailsAborting(s, include) ==
    LET found == ExtractRequirementsListHtml(s).found
    IN  [blueprint |-> IF include THEN ExtractBlueprintText(s) ELSE <<>>,
         requirements |-> ExtractBlueprintRequirements(s),
         tags |-> IF found THEN ExtractBlueprintTagNames(s) ELSE <<>>,
         description |-> IF found THEN ExtractBlueprintDescription(s) ELSE <<>>]

\* fetchBlueprintDetails after the fetch
ParseDetails(s, include) ==
    [blueprint |-> IF include THEN ExtractBlueprintText(s) ELSE <<>>,
     requirements |-> ExtractBlueprintRequirements(s),
     tags |-> ExtractBlueprintTagNames(s),
     description |-> ExtractBlueprintDescription(s)]

\* what searchBlueprints calls, in order: the fetch and, for a response that
\* is ok, its text and the two steps of the parse
SearchCalls(ok) ==
    <<"fetch">>
    \o (IF ok THEN <<"text", "extractBlueprintCardSections", "parseBlueprintCard">>
        ELSE <<>>)

\* what fetchBlueprintDetails calls, in order
DetailsCalls(ok, include) ==
    <<"fetch">>
    \o (IF ok
        THEN <<"text">>
             \o (IF include THEN <<"extractBlueprintText">> ELSE <<>>)
             \o <<"extractBlueprintRequirements", "extractBlueprintTagNames",
                  "extractBlueprintDescription">>
        ELSE <<>>)

(***************************************************************************)
(* Input documents.                                                        *)
(***************************************************************************)

\* the concatenations of at most n fragments of P
RECURSIVE Concats(_, _)
Concats(P, n) ==
    IF n = 0 THEN {<<>>}
    ELSE LET shorter == Concats(P, n - 1)
         IN  shorter \cup {d \o p : d \in shorter, p \in P}

MaxRegionPieces == 5

RegionOps == {"extractRequirementsListHtml", "extractBlueprintTagSection"}

RegionPieces(o) ==
    {RegionMarker(o), RegionOpen(o) \o <<">">>, RegionClose(o), <<"x">>}

RegionDocs(o) == Concats(RegionPieces(o), MaxRegionPieces)

MaxSplitPieces == 4

SplitOps == {"extractBlueprintCardSections", "extractRequirementEntitySections"}

\* the marker, filler text, the marker's first three characters and a lone ">"
SplitPieces(o) ==
    {SplitMarker(o), <<"x">>, SubSeq(SplitMarker(o), 1, 3), <<">">>}

SplitDocs(o) == Concats(SplitPieces(o), MaxSplitPieces)

MaxTextPieces == 3

TextOps == {"decodeHtmlEntities", "normalizeText"}

\* the five references, the tails "lt;" and "amp;" that a decoded "&" can join,
\* a reference the decoder does not know, a space, a line break with its
\* indentation and a letter
TextPieces ==
    {entAmp, entLt, entGt, entQuot, entApos, <<"l","t",";">>, <<"a","m","p",";">>,
     <<"&","n","b","s","p",";">>, <<" ">>, <<"\n"," "," ">>, <<"x">>}

TextDocs == Concats(TextPieces, MaxTextPieces)

MaxCountPieces == 3

\* "<span>Qty</span> 12 units" and "no numbers"
exampleQty ==
    <<"<","s","p","a","n",">","Q","t","y","<","/","s","p","a","n",">"," ","1","2"," ","u","n",
      "i","t","s">>
exampleNoNumbers == <<"n","o"," ","n","u","m","b","e","r","s">>

\* digits, a tag, a tag with a digit in an attribute ('<b id="3">'), a reference
\* spelled with digits, lone angle brackets, white space and a letter
CountPieces ==
    {<<"1">>, <<"2">>, <<"0">>, <<"<","b",">">>,
     <<"<","b"," ","i","d","=","\"","3","\"",">">>, entApos, <<"<">>, <<">">>,
     <<" ">>, <<"x">>}

CountDocs == Concats(CountPieces, MaxCountPieces) \cup {exampleQty, exampleNoNumbers}

(* Fragments of a detail page. *)

\* '<div class="t-blueprint__requirements-entity__tally">' text '</div>'
Tally(text) == tallyMarker \o text \o divClose

\* ' data-tippy-content="' text '"'
Tippy(text) == <<" ">> \o tippyPrefix \o text \o Quote

\* a requirement "Iron  Ingot" (two spaces) with the tally "Qty: 5"
entityIron ==
    entityMarker \o Tally(<<"Q","t","y",":"," ","5">>)
    \o <<"<","i","m","g">> \o Tippy(<<"I","r","o","n"," "," ","I","n","g","o","t">>) \o Gt
    \o liClose

\* a requirement with the tally "3" and no name
entityNameless == entityMarker \o Tally(<<"3">>) \o liClose

\* '<li class="t-blueprint__requirements-entity__recipe' rest '>' text '</li>'
RecipeLi(rest, text) ==
    liOpen \o <<" ">> \o recipeClassPrefix \o rest \o Gt \o text \o liClose

\* the recipe "Smelt", 2
liSmelt == RecipeLi(Quote \o Tippy(<<"S","m","e","l","t">>), <<"2">>)

\* the recipe "Cast &amp; Roll", "<b>x</b> 13", with a second class
liCast ==
    RecipeLi(<<" ","i","s","-","a","l","t">> \o Quote
             \o Tippy(<<"C","a","s","t"," ">> \o entAmp \o <<" ","R","o","l","l">>),
             <<"<","b",">","x","<","/","b",">"," ","1","3">>)

\* the recipe "Free" without a number
liZero == RecipeLi(Quote \o Tippy(<<"F","r","e","e">>), <<"n","o","n","e">>)

\* a recipe item with the number 4 and no name
liNameless == RecipeLi(Quote, <<"4">>)

\* the recipes list of a requirement, with the recipe "Smelt", 2
recipesBlock == recipesMarker \o liSmelt \o ulClose

\* '<div data-tippy-content="Mall"></div>' and the same with the name " "
tagItem == divOpen \o Tippy(<<"M","a","l","l">>) \o Gt \o divClose
tagBlank == divOpen \o Tippy(<<" ">>) \o Gt \o divClose

\* '<div class="trix-content"><div>Hi <b>all</b></div></div>'
descriptionBlock ==
    trixMarker \o divTag \o <<"H","i"," ","<","b",">","a","l","l","<","/","b",">">>
    \o divClose \o divClose

\* '<textarea data-clipboard-target="true">BP&amp;1</textarea>'
textareaBlock ==
    textareaOpen \o <<" ">> \o clipboardAttr \o Gt \o <<"B","P">> \o entAmp \o <<"1">>
    \o textareaClose

MaxReqPieces == 4

ReqPieces == {listMarker, entityIron, entityNameless, recipesBlock, ulClose}

ReqDocs == Concats(ReqPieces, MaxReqPieces)

MaxTagPieces == 4

TagPieces == {tagSectionMarker, tagItem, tagBlank, divClose}

TagDocs == Concats(TagPieces, MaxTagPieces)

MaxRecipePieces == 3

RecipePieces == {liSmelt, liCast, liZero, liNameless}

RecipeDocs == Concats(RecipePieces, MaxRecipePieces)

MaxDetailEntities == 2

\* the requirements part of a detail page: none, a list left open, or a closed
\* list of at most MaxDetailEntities requirements and recipes lists
DetailReqParts ==
    {<<>>, listMarker \o entityIron}
    \cup {listMarker \o body \o ulClose :
             body \in Concats({entityIron, entityNameless, recipesBlock}, MaxDetailEntities)}

(* Fragments of one requirement entry. *)

\* the tallies "Qty: 5" and "none"
tallyFive == Tally(<<"Q","t","y",":"," ","5">>)
tallyNone == Tally(<<"n","o","n","e">>)

\* '<img data-tippy-content="Iron Ingot">' and the same with the name " "
imgIron ==
    <<"<","i","m","g">> \o Tippy(<<"I","r","o","n"," ","I","n","g","o","t">>) \o Gt
imgBlank == <<"<","i","m","g">> \o Tippy(<<" ">>) \o Gt

\* a recipes list whose first item "Cast", 3 holds a list of its own, followed
\* by the recipe "Smelt", 2
recipesNested ==
    recipesMarker
    \o RecipeLi(Quote \o Tippy(<<"C","a","s","t">>),
                <<"3">> \o ulOpen \o Gt \o ulClose)
    \o liSmelt \o ulClose

\* the requirement "Iron Ingot", "Qty: 5" without a recipes list
exampleEntity == entityMarker \o tallyFive \o imgIron

MaxEntityPieces == 3

EntityPieces == {tallyFive, tallyNone, imgIron, imgBlank, recipesBlock, recipesNested}

\* one section of the requirements list: the marker and what follows it
EntityDocs == {entityMarker \o body : body \in Concats(EntityPieces, MaxEntityPieces)}

\* a detail page: the payload or not, a requirements part, a tags part (none,
\* closed, left open), the description or not
DetailDocs ==
    {ta \o req \o tg \o ds :
        ta \in {<<>>, textareaBlock},
        req \in DetailReqParts,
        tg \in {<<>>, tagSectionMarker \o tagItem \o divClose, tagSectionMarker \o tagItem},
        ds \in {<<>>, descriptionBlock}}

(* Fragments of a listing page. *)

\* ' data-blueprint-id="7">'
idSeven ==
    <<" ","d","a","t","a","-","b","l","u","e","p","r","i","n","t","-","i","d","=","\"","7","\"",
      ">">>

\* ' data-blueprint-id="12">'
idTwelve ==
    <<" ","d","a","t","a","-","b","l","u","e","p","r","i","n","t","-","i","d","=","\"","1","2",
      "\"",">">>

\* ' data-blueprint-id="">'
idBlank ==
    <<" ","d","a","t","a","-","b","l","u","e","p","r","i","n","t","-","i","d","=","\"","\"",
      ">">>

\* '<h2><a href="/b">Ore &amp;  Gas</a></h2>'
nameBlock ==
    <<"<","h","2",">","<","a"," ","h","r","e","f","=","\"","/","b","\"",">","O","r","e"," ","&",
      "a","m","p",";"," "," ","G","a","s","<","/","a",">","<","/","h","2",">">>

\* '<h2><a href="/b">R&amp;amp;D</a></h2>'
nameEscaped ==
    <<"<","h","2",">","<","a"," ","h","r","e","f","=","\"","/","b","\"",">","R","&","a","m","p",
      ";","a","m","p",";","D","<","/","a",">","<","/","h","2",">">>

\* 'by <a href="/u">Ann</a>'
authorBlock ==
    <<"b","y"," ","<","a"," ","h","r","e","f","=","\"","/","u","\"",">","A","n","n","<","/","a",
      ">">>

\* '<div class="o-blueprint-card__cover"><a href="/blueprints/7?a=1&amp;b=2">'
coverBlock ==
    <<"<","d","i","v"," ","c","l","a","s","s","=","\"","o","-","b","l","u","e","p","r","i","n",
      "t","-","c","a","r","d","_","_","c","o","v","e","r","\"",">","<","a"," ","h","r","e","f",
      "=","\"","/","b","l","u","e","p","r","i","n","t","s","/","7","?","a","=","1","&","a","m",
      "p",";","b","=","2","\"",">">>

\* '<ul class="o-blueprint-card__tags"><li class="o-blueprint-card__tags-tag">Mall</li><li class="o-blueprint-card__tags-tag is-x"> </li></ul>'
tagsBlock ==
    <<"<","u","l"," ","c","l","a","s","s","=","\"","o","-","b","l","u","e","p","r","i","n","t",
      "-","c","a","r","d","_","_","t","a","g","s","\"",">","<","l","i"," ","c","l","a","s","s",
      "=","\"","o","-","b","l","u","e","p","r","i","n","t","-","c","a","r","d","_","_","t","a",
      "g","s","-","t","a","g","\"",">","M","a","l","l","<","/","l","i",">","<","l","i"," ","c",
      "l","a","s","s","=","\"","o","-","b","l","u","e","p","r","i","n","t","-","c","a","r","d",
      "_","_","t","a","g","s","-","t","a","g"," ","i","s","-","x","\"",">"," ","<","/","l","i",
      ">","<","/","u","l",">">>

MaxCardPieces == 3

\* one card section: the marker, then at most MaxCardPieces fragments
CardPieces ==
    {idSeven, idBlank, nameBlock, nameEscaped, authorBlock, coverBlock, tagsBlock}

CardDocs == {cardMarker \o d : d \in Concats(CardPieces, MaxCardPieces)}

MaxListingPieces == 3

\* a listing page: at most MaxListingPieces whole cards (with the id 7, the id 12
\* or an id attribute without digits; bare or with a name and an author) and
\* pieces of filler text
ListingPieces ==
    {cardMarker \o id \o body :
        id \in {idSeven, idTwelve, idBlank}, body \in {<<>>, nameBlock \o authorBlock}}
    \cup {<<"x">>}

ListingDocs == Concats(ListingPieces, MaxListingPieces)

(***************************************************************************)
(* The cache store (MemoryCacheStore) and the cache keys of the routes.    *)
(***************************************************************************)

\* get with an entry ending at its expiry time already: Date.now() >= entry.expiresAt
StoreGetEarly(store, key, t) ==
    LET entry == store[key]
    IN  IF ~entry.found THEN [store |-> store, value |-> Null]
        ELSE IF t >= entry.val.expiresAt
        THEN [store |-> [store EXCEPT ![key] = Null], value |-> Null]
        ELSE [store |-> store, value |-> Some(entry.val.value)]

\* get: undefined for a key without entry, undefined and the entry deleted for
\* an entry whose time has passed, otherwise the value
StoreGet(store, key, t) ==
    LET entry == store[key]
    IN  IF ~entry.found THEN [store |-> store, value |-> Null]
        ELSE IF t > entry.val.expiresAt
        THEN [store |-> [store EXCEPT ![key] = Null], value |-> Null]
        ELSE [store |-> store, value |-> Some(entry.val.value)]

StoreSet(store, key, value, ttlMs, t) ==
    [store EXCEPT ![key] = Some([value |-> value, expiresAt |-> t + ttlMs])]

StoreDelete(store, key) == [store EXCEPT ![key] = Null]

StoreClear(store) == [k \in DOMAIN store |-> Null]

\* "search:", "|author:", "|tags:", "details:", "|includeBlueprint:"
searchKeyPrefix == <<"s","e","a","r","c","h",":">>
authorKeyPart == <<"|","a","u","t","h","o","r",":">>
tagsKeyPart == <<"|","t","a","g","s",":">>
detailsKeyPrefix == <<"d","e","t","a","i","l","s",":">>
includeKeyPart ==
    <<"|","i","n","c","l","u","d","e","B","l","u","e","p","r","i","n","t",":">>

\* String(true), String(false) and "default"
trueText == <<"t","r","u","e">>
falseText == <<"f","a","l","s","e">>
defaultText == <<"d","e","f","a","u","l","t">>

\* Array.prototype.join
RECURSIVE Join(_, _)
Join(xs, sep) ==
    IF xs = <<>> THEN <<>>
    ELSE IF Len(xs) = 1 THEN xs[1]
    ELSE xs[1] \o sep \o Join(Tail(xs), sep)

BuildSearchCacheKey(search, author, tags) ==
    searchKeyPrefix \o search \o authorKeyPart \o author
    \o tagsKeyPart \o Join(tags, <<",">>)

\* include is "undefined", "true" or "false" (boolean | undefined)
BuildDetailsCacheKey(path, include) ==
    detailsKeyPrefix \o path \o includeKeyPart
    \o (IF include = "undefined" THEN defaultText
        ELSE IF include = "true" THEN trueText ELSE falseText)

(* The requests the routes are given and the pages the site serves. *)

\* the query of a search request: search, author and the parsed tags
\* (two of them differ in search and author and are given the same key)
SearchQueries ==
    {[search |-> <<>>, author |-> <<>>, tags |-> <<>>],
     [search |-> <<"a">>, author |-> <<>>, tags |-> <<>>],
     [search |-> <<"a">>, author |-> authorKeyPart, tags |-> <<>>],
     [search |-> <<"a">> \o authorKeyPart, author |-> <<>>, tags |-> <<>>]}

\* the query of a details request: path and the parsed includeBlueprint
DetailsQueries ==
    {[path |-> q, includeBlueprint |-> i] : q \in {<<>>, <<"/","p">>},
                                           i \in {"undefined", "false"}}

\* the keys the handlers build: a request without search / path is turned
\* away before its key is built
SearchKeys ==
    {BuildSearchCacheKey(q.search, q.author, q.tags) :
        q \in {x \in SearchQueries : x.search # <<>>}}
DetailsKeys ==
    {BuildDetailsCacheKey(q.path, q.includeBlueprint) :
        q \in {x \in DetailsQueries : x.path # <<>>}}
CacheKeys == SearchKeys \cup DetailsKeys

\* searchCache and detailsCache of createApp
CacheNames == {"searchCache", "detailsCache"}
KeysOf(c) == IF c = "searchCache" THEN SearchKeys ELSE DetailsKeys

\* the pages the site serves: an empty page, a listing with one card, a detail
\* page with a payload and a description
ServedListings == {<<>>, cardMarker \o idSeven \o nameBlock \o authorBlock}
ServedDetails == {<<>>, textareaBlock \o descriptionBlock}

\* what searchBlueprints and fetchBlueprintDetails return for each served page
SearchResults == [page \in ServedListings |-> ParseListing(page)]
DetailsResults ==
    [page \in ServedDetails |-> [include \in BOOLEAN |-> ParseDetails(page, include)]]

\* config.cacheTtlMs, in ticks of the clock of the model (CACHE_TTL_MS is
\* whatever the environment sets)
cacheTtlMs == 1

\* the clock runs from 0 to MaxTime; set is given a ttlMs of 0..MaxTtl
MaxTime == 2
MaxTtl == 1

MaxRequests == 2

Requests == 1..MaxRequests

\* a request that has not come in
IdleRequest ==
    [pc |-> "idle", route |-> "none", query |-> Null, key |-> <<>>,
     includeBlueprint |-> "undefined", cached |-> Null, live |-> FALSE,
     removed |-> FALSE, response |-> "none", calls |-> <<>>,
     status |-> 0, body |-> Null, error |-> ""]

\* no request, empty caches, nothing done on a store
ServerIdle ==
    /\ entries = [c \in CacheNames |-> [k \in KeysOf(c) |-> Null]]
    /\ now = 0
    /\ reqs = [r \in Requests |-> IdleRequest]
    /\ got = [op |-> "none", key |-> <<>>, value |-> Null, at |-> 0]
    /\ written = [k \in CacheKeys |-> Null]

(***************************************************************************)
(* The state machine.                                                      *)
(***************************************************************************)

\* a call that has not begun; Direct: an operation that fetches nothing
Idle ==
    /\ pc = "start"
    /\ cursor = 0
    /\ depth = 0
    /\ from = 0
    /\ sections = <<>>
    /\ out = Null
    /\ calls = <<>>
    /\ ServerIdle

Direct ==
    /\ responseOk = TRUE
    /\ includeBlueprint = TRUE

InitRegion ==
    /\ \/ op \in RegionOps /\ html \in RegionDocs(op)
       \/ op = "extractBlueprintRequirements" /\ html \in ReqDocs
       \/ op = "extractBlueprintTagNames" /\ html \in TagDocs
    /\ Direct
    /\ Idle

Return(v) ==
    /\ pc' = "done"
    /\ out' = Some(v)
    /\ UNCHANGED <<input, server, cursor, depth, from, sections>>

\* a throw: the call ends without a value
Throw ==
    /\ pc' = "failed"
    /\ UNCHANGED <<input, server, cursor, depth, from, sections, out>>

\* extractRequirementsListHtml / extractBlueprintTagSection up to the loop
RegionStart ==
    /\ op \in RegionOps
    /\ pc = "start"
    /\ LET st == RegionEnter(op, html)
       IN  /\ pc' = st.pc
           /\ cursor' = st.cursor
           /\ depth' = st.depth
           /\ from' = st.from
           /\ out' = st.out
    /\ UNCHANGED <<input, server, calls, sections>>

\* one evaluation of the loop test and, if it holds, of the loop body
RegionStep ==
    /\ op \in RegionOps
    /\ pc = "scan"
    /\ LET st == RegionIterate(op, html,
                     [pc |-> pc, cursor |-> cursor, depth |-> depth,
                      from |-> from, out |-> out])
       IN  /\ pc' = st.pc
           /\ cursor' = st.cursor
           /\ depth' = st.depth
           /\ out' = st.out
    /\ UNCHANGED <<input, server, calls, from, sections>>

\* extractBlueprintRequirements, its call of the region scan included
RequirementsCall ==
    /\ op = "extractBlueprintRequirements"
    /\ pc = "start"
    /\ Return(ExtractBlueprintRequirements(html))
    /\ UNCHANGED calls

\* extractBlueprintTagNames, its call of the region scan included
TagNamesCall ==
    /\ op = "extractBlueprintTagNames"
    /\ pc = "start"
    /\ Return(ExtractBlueprintTagNames(html))
    /\ UNCHANGED calls

NextRegion == RegionStart \/ RegionStep \/ RequirementsCall \/ TagNamesCall

SpecRegion == InitRegion /\ [][NextRegion]_vars

InitSplit ==
    /\ op \in SplitOps
    /\ html \in SplitDocs(op)
    /\ Direct
    /\ Idle

\* extractBlueprintCardSections / extractRequirementEntitySections up to the loop
SplitStart ==
    /\ op \in SplitOps
    /\ pc = "start"
    /\ LET st == SplitEnter(op, html)
       IN  /\ pc' = st.pc
           /\ cursor' = st.cursor
           /\ sections' = st.sections
           /\ out' = st.out
    /\ UNCHANGED <<input, server, calls, depth, from>>

\* one evaluation of the loop test and, if it holds, of the loop body
SplitStep ==
    /\ op \in SplitOps
    /\ pc = "scan"
    /\ LET st == SplitIterate(op, html,
                     [pc |-> pc, cursor |-> cursor, sections |-> sections, out |-> out])
       IN  /\ pc' = st.pc
           /\ cursor' = st.cursor
           /\ sections' = st.sections
           /\ out' = st.out
    /\ UNCHANGED <<input, server, calls, depth, from>>

NextSplit == SplitStart \/ SplitStep

SpecSplit == InitSplit /\ [][NextSplit]_vars

InitText ==
    /\ \/ op \in TextOps /\ html \in TextDocs
       \/ op = "parseCountFromHtml" /\ html \in CountDocs
    /\ Direct
    /\ Idle

DecodeCall ==
    /\ op = "decodeHtmlEntities"
    /\ pc = "start"
    /\ Return(DecodeHtmlEntities(html))
    /\ UNCHANGED calls

NormalizeCall ==
    /\ op = "normalizeText"
    /\ pc = "start"
    /\ Return(NormalizeText(html))
    /\ UNCHANGED calls

ParseCountCall ==
    /\ op = "parseCountFromHtml"
    /\ pc = "start"
    /\ Return(ParseCountFromHtml(html))
    /\ UNCHANGED calls

NextText == DecodeCall \/ NormalizeCall \/ ParseCountCall

SpecText == InitText /\ [][NextText]_vars

InitListing ==
    /\ \/ /\ op = "parseBlueprintCard"
          /\ html \in CardDocs
          /\ Direct
       \/ /\ op = "searchBlueprints"
          /\ html \in ListingDocs
          /\ responseOk \in BOOLEAN
          /\ includeBlueprint = TRUE
    /\ Idle

ParseBlueprintCardCall ==
    /\ op = "parseBlueprintCard"
    /\ pc = "start"
    /\ pc' = "done"
    /\ out' = ParseBlueprintCard(html)
    /\ UNCHANGED <<input, server, calls, cursor, depth, from, sections>>

\* searchBlueprints from the response on
SearchBlueprints ==
    /\ op = "searchBlueprints"
    /\ pc = "start"
    /\ IF ~responseOk THEN Throw ELSE Return(ParseListing(html))
    /\ calls' = SearchCalls(responseOk)

NextListing == ParseBlueprintCardCall \/ SearchBlueprints

SpecListing == InitListing /\ [][NextListing]_vars

InitDetails ==
    /\ \/ /\ op = "extractRecipeEntries"
          /\ html \in RecipeDocs
          /\ Direct
       \/ /\ op = "parseRequirementEntity"
          /\ html \in EntityDocs
          /\ Direct
       \/ /\ op = "fetchBlueprintDetails"
          /\ html \in DetailDocs
          /\ responseOk \in BOOLEAN
          /\ includeBlueprint \in BOOLEAN
    /\ Idle

ExtractRecipeEntriesCall ==
    /\ op = "extractRecipeEntries"
    /\ pc = "start"
    /\ Return(ExtractRecipeEntries(html))
    /\ UNCHANGED calls

ParseRequirementEntityCall ==
    /\ op = "parseRequirementEntity"
    /\ pc = "start"
    /\ pc' = "done"
    /\ out' = ParseRequirementEntity(html)
    /\ UNCHANGED <<input, server, calls, cursor, depth, from, sections>>

\* fetchBlueprintDetails from the response on
FetchBlueprintDetails ==
    /\ op = "fetchBlueprintDetails"
    /\ pc = "start"
    /\ IF ~responseOk THEN Throw ELSE Return(ParseDetails(html, includeBlueprint))
    /\ calls' = DetailsCalls(responseOk, includeBlueprint)

NextDetails ==
    ExtractRecipeEntriesCall \/ ParseRequirementEntityCall \/ FetchBlueprintDetails

SpecDetails == InitDetails /\ [][NextDetails]_vars

(* The cache store on its own. *)

scraper ==
    <<op, html, responseOk, includeBlueprint, pc, cursor, depth, from, sections, out,
      calls>>

InitCache ==
    /\ op = "MemoryCacheStore"
    /\ html = <<>>
    /\ Direct
    /\ Idle

\* the store the operations below are made on
TestCache == "searchCache"

\* the values set on it: the results of two searches
TestValues == {SearchResults[page] : page \in ServedListings}

\* the clock moves on
Tick ==
    /\ op \in {"MemoryCacheStore", "createApp"}
    /\ now < MaxTime
    /\ now' = now + 1
    /\ UNCHANGED <<scraper, entries, reqs, got, written>>

CacheGet(key) ==
    /\ op = "MemoryCacheStore"
    /\ LET g == StoreGet(entries[TestCache], key, now)
       IN  /\ entries' = [entries EXCEPT ![TestCache] = g.store]
           /\ got' = [op |-> "get", key |-> key, value |-> g.value, at |-> now]
    /\ UNCHANGED <<scraper, now, reqs, written>>

CacheSet(key, value, ttlMs) ==
    /\ op = "MemoryCacheStore"
    /\ entries' = [entries EXCEPT ![TestCache] = StoreSet(@, key, value, ttlMs, now)]
    /\ got' = [op |-> "set", key |-> key, value |-> Some(value), at |-> now]
    /\ written' = [written EXCEPT
                      ![key] = Some([value |-> value, at |-> now, ttlMs |-> ttlMs])]
    /\ UNCHANGED <<scraper, now, reqs>>

CacheDelete(key) ==
    /\ op = "MemoryCacheStore"
    /\ entries' = [entries EXCEPT ![TestCache] = StoreDelete(@, key)]
    /\ got' = [op |-> "delete", key |-> key, value |-> Null, at |-> now]
    /\ written' = [written EXCEPT ![key] = Null]
    /\ UNCHANGED <<scraper, now, reqs>>

CacheClear ==
    /\ op = "MemoryCacheStore"
    /\ entries' = [entries EXCEPT ![TestCache] = StoreClear(@)]
    /\ got' = [op |-> "clear", key |-> <<>>, value |-> Null, at |-> now]
    /\ written' = [k \in CacheKeys |-> Null]
    /\ UNCHANGED <<scraper, now, reqs>>

NextCache ==
    \/ \E key \in KeysOf(TestCache) : CacheGet(key)
    \/ \E key \in KeysOf(TestCache), value \in TestValues, ttlMs \in 0..MaxTtl :
          CacheSet(key, value, ttlMs)
    \/ \E key \in KeysOf(TestCache) : CacheDelete(key)
    \/ CacheClear
    \/ Tick

SpecCache == InitCache /\ [][NextCache]_vars

(* The routes /blueprints/search and /blueprints/details. *)

InitServer ==
    /\ op = "createApp"
    /\ html = <<>>
    /\ Direct
    /\ Idle

\* res.json(body) with the status 200, or sendError(res, status, message)
Reply(req, status, body, error) ==
    [req EXCEPT !.pc = "done", !.status = status, !.body = body, !.error = error]

\* requests are numbered in the order they come in
Arrives(r) ==
    /\ reqs[r].pc = "idle"
    /\ \A earlier \in 1..(r - 1) : reqs[earlier].pc # "idle"

\* the sets made so far leave a live entry for key at time t
LiveAt(key, t) ==
    written[key].found /\ t <= written[key].val.at + written[key].val.ttlMs

\* the lookup going on to the scraper whatever the cache holds
LookupThenFetch(r, route, c, q, key, include) ==
    LET g == StoreGet(entries[c], key, now)
        req == [reqs[r] EXCEPT !.route = route, !.query = Some(q), !.key = key,
                               !.includeBlueprint = include,
                               !.cached = g.value, !.live = LiveAt(key, now),
                               !.removed = entries[c][key].found
                                           /\ ~g.store[key].found]
    IN  /\ entries' = [entries EXCEPT ![c] = g.store]
        /\ got' = [op |-> "get", key |-> key, value |-> g.value, at |-> now]
        /\ reqs' = [reqs EXCEPT ![r] = [req EXCEPT !.pc = "fetching",
                                                   !.calls = <<"fetch">>]]
        /\ UNCHANGED <<now, written>>

\* both handlers from the cache lookup to the await of the scraper: a value
\* found (a list or a record, which is truthy) is the reply; if none is found
\* the scraper is called and runs up to its fetch
Lookup(r, route, c, q, key, include) ==
    LET g == StoreGet(entries[c], key, now)
        req == [reqs[r] EXCEPT !.route = route, !.query = Some(q), !.key = key,
                               !.includeBlueprint = include,
                               !.cached = g.value, !.live = LiveAt(key, now),
                               !.removed = entries[c][key].found
                                           /\ ~g.store[key].found]
    IN  /\ entries' = [entries EXCEPT ![c] = g.store]
        /\ got' = [op |-> "get", key |-> key, value |-> g.value, at |-> now]
        /\ reqs' = [reqs EXCEPT
                       ![r] = IF g.value.found
                              THEN Reply(req, 200, g.value, "")
                              ELSE [req EXCEPT !.pc = "fetching",
                                               !.calls = <<"fetch">>]]
        /\ UNCHANGED <<now, written>>

\* both handlers after the await, for a scraper call that returned value
Store(r, c, req, value) ==
    /\ entries' = [entries EXCEPT ![c] = StoreSet(@, req.key, value, cacheTtlMs, now)]
    /\ got' = [op |-> "set", key |-> req.key, value |-> Some(value), at |-> now]
    /\ written' = [written EXCEPT
                      ![req.key] = Some([value |-> value, at |-> now,
                                         ttlMs |-> cacheTtlMs])]
    /\ reqs' = [reqs EXCEPT ![r] = Reply(req, 200, Some(value), "")]
    /\ UNCHANGED now

\* the cache a route keeps its results in
CacheOf(route) == IF route = "search" THEN "searchCache" ELSE "detailsCache"

\* a handler that drops the entry of its key when the scraper call threw
FailDropping(r, req, error) ==
    /\ reqs' = [reqs EXCEPT ![r] = Reply(req, 500, Null, error)]
    /\ entries' = [entries EXCEPT ![CacheOf(req.route)] = StoreDelete(@, req.key)]
    /\ UNCHANGED <<now, got, written>>

\* a handler that answers a scraper call that threw with an empty result
FailQuietly(r, req, error) ==
    /\ reqs' = [reqs EXCEPT ![r] = Reply(req, 200, Some(<<>>), "")]
    /\ UNCHANGED <<entries, now, got, written>>

\* both handlers after the await, for a scraper call that threw
Fail(r, req, error) ==
    /\ reqs' = [reqs EXCEPT ![r] = Reply(req, 500, Null, error)]
    /\ UNCHANGED <<entries, now, got, written>>

\* GET /blueprints/search up to its reply or to the await of searchBlueprints
SearchRequest(r, q) ==
    /\ op = "createApp"
    /\ Arrives(r)
    /\ IF q.search = <<>>
       THEN /\ reqs' = [reqs EXCEPT
                          ![r] = Reply([reqs[r] EXCEPT !.route = "search",
                                                       !.query = Some(q)], 400, Null,
                                       "Query parameter 'search' is required.")]
            /\ UNCHANGED <<entries, now, got, written>>
       ELSE Lookup(r, "search", "searchCache", q,
                   BuildSearchCacheKey(q.search, q.author, q.tags), "undefined")
    /\ UNCHANGED scraper

\* searchBlueprints from the response of its fetch on, and the rest of the handler
SearchResponse(r, ok, page) ==
    /\ op = "createApp"
    /\ reqs[r].pc = "fetching"
    /\ reqs[r].route = "search"
    /\ LET req == [reqs[r] EXCEPT !.response = IF ok THEN "ok" ELSE "failed",
                                  !.calls = SearchCalls(ok)]
       IN  IF ok THEN Store(r, "searchCache", req, SearchResults[page])
           ELSE Fail(r, req, "Failed to fetch blueprints.")
    /\ UNCHANGED scraper

\* GET /blueprints/details up to its reply or to the await of fetchBlueprintDetails
DetailsRequest(r, q) ==
    /\ op = "createApp"
    /\ Arrives(r)
    /\ IF q.path = <<>>
       THEN /\ reqs' = [reqs EXCEPT
                          ![r] = Reply([reqs[r] EXCEPT !.route = "details",
                                                       !.query = Some(q)], 400, Null,
                                       "Query parameter 'path' is required.")]
            /\ UNCHANGED <<entries, now, got, written>>
       ELSE Lookup(r, "details", "detailsCache", q,
                   BuildDetailsCacheKey(q.path, q.includeBlueprint), q.includeBlueprint)
    /\ UNCHANGED scraper

\* fetchBlueprintDetails from the response of its fetch on (includeBlueprint ?? true),
\* and the rest of the handler
DetailsResponse(r, ok, page) ==
    /\ op = "createApp"
    /\ reqs[r].pc = "fetching"
    /\ reqs[r].route = "details"
    /\ LET include == reqs[r].includeBlueprint # "false"
           req == [reqs[r] EXCEPT !.response = IF ok THEN "ok" ELSE "failed",
                                  !.calls = DetailsCalls(ok, include)]
       IN  IF ok THEN Store(r, "detailsCache", req, DetailsResults[page][include])
           ELSE Fail(r, req, "Failed to fetch blueprint details.")
    /\ UNCHANGED scraper

NextServer ==
    \/ \E r \in Requests, q \in SearchQueries : SearchRequest(r, q)
    \/ \E r \in Requests, ok \in BOOLEAN, page \in ServedListings :
          SearchResponse(r, ok, page)
    \/ \E r \in Requests, q \in DetailsQueries : DetailsRequest(r, q)
    \/ \E r \in Requests, ok \in BOOLEAN, page \in ServedDetails :
          DetailsResponse(r, ok, page)
    \/ Tick

SpecServer == InitServer /\ [][NextServer]_vars

(* The two scanning loops, run to their end. *)

MaxScanPieces == 3

InitScan ==
    /\ \/ op \in RegionOps /\ html \in Concats(RegionPieces(op), MaxScanPieces)
       \/ op \in SplitOps /\ html \in Concats(SplitPieces(op), MaxScanPieces)
    /\ Direct
    /\ Idle

NextScan == RegionStart \/ RegionStep \/ SplitStart \/ SplitStep

\* a loop is synchronous code: once entered it goes on until it returns
SpecScan == InitScan /\ [][NextScan]_vars /\ WF_vars(NextScan)

Init ==
    InitRegion \/ InitSplit \/ InitText \/ InitListing \/ InitDetails \/ InitCache
    \/ InitServer
Next ==
    NextRegion \/ NextSplit \/ NextText \/ NextListing \/ NextDetails \/ NextCache
    \/ NextServer
Spec == Init /\ [][Next]_vars

(***************************************************************************)
(* Reference notions for the balanced region, read off the text alone.     *)
(***************************************************************************)

\* the position just after the first marker (only used when the marker occurs)
RegionFrom(o, s) == Min(Occurrences(s, RegionMarker(o))) + Len(RegionMarker(o))

\* nesting depth in force at position p: 1 for the marker, +1 for every opening
\* prefix and -1 for every closing tag that starts in [RegionFrom, p)
DepthAt(o, s, p) ==
    1 + Cardinality({i \in Occurrences(s, RegionOpen(o)) : RegionFrom(o, s) <= i /\ i < p})
      - Cardinality({i \in Occurrences(s, RegionClose(o)) : RegionFrom(o, s) <= i /\ i < p})

\* the closing tags that take the depth from 1 to 0
ZeroingCloses(o, s) ==
    {c \in Occurrences(s, RegionClose(o)) : RegionFrom(o, s) <= c /\ DepthAt(o, s, c) = 1}

RegionDone == op \in RegionOps /\ pc = "done"

\* C1: when the first marker is followed by a closing tag that brings the nesting
\* depth from 1 to 0, the region returned is exactly the text from just after the
\* marker up to (excluding) the first such closing tag, never a shorter text that
\* ends at the closing tag of a nested list or container.
C1_RegionEndsAtMatchingClose ==
    (/\ RegionDone
     /\ Occurrences(html, RegionMarker(op)) # {}
     /\ ZeroingCloses(op, html) # {})
    => out = Some(Slice(html, RegionFrom(op, html), Min(ZeroingCloses(op, html))))

\* C1 witness: a region was returned that holds a nested list with its own close tag
C1_Witness ==
    /\ RegionDone
    /\ out.found
    /\ Occurrences(out.val, RegionOpen(op)) # {}
    /\ Occurrences(out.val, RegionClose(op)) # {}
    /\ out.val = Slice(html, RegionFrom(op, html), Min(ZeroingCloses(op, html)))

(***************************************************************************)
(* Reference notions for the splitter, read off the text alone.            *)
(***************************************************************************)

\* the k-th smallest element of a finite set of integers
Nth(S, k) == CHOOSE x \in S : Cardinality({y \in S : y < x}) = k - 1

RECURSIVE Flatten(_)
Flatten(ss) == IF ss = <<>> THEN <<>> ELSE Head(ss) \o Flatten(Tail(ss))

SplitDone == op \in SplitOps /\ pc = "done"

\* C3: the splitter returns one section per occurrence of the marker; section i
\* runs from occurrence i to just before occurrence i+1 (to the end of the
\* document for the last), so each section starts with the marker and holds it
\* exactly once, and the sections concatenated are the document from the first
\* occurrence on; without any occurrence the result is empty.
C3_SectionsPartitionFromFirstMarker ==
    SplitDone =>
        LET occ == Occurrences(html, SplitMarker(op))
            n == Cardinality(occ)
            secs == out.val
        IN  /\ Len(secs) = n
            /\ \A i \in 1..n :
                  /\ secs[i] = Slice(html, Nth(occ, i),
                                     IF i = n THEN Len(html) ELSE Nth(occ, i + 1))
                  /\ Occurrences(secs[i], SplitMarker(op)) = {0}
            /\ n > 0 => Flatten(secs) = Slice(html, Min(occ), Len(html))
            /\ n = 0 => secs = <<>>

\* C3 witness: text before the first marker is dropped and two sections returned
C3_Witness ==
    /\ SplitDone
    /\ Len(out.val) = 2
    /\ ~StartsWithAt(html, SplitMarker(op), 0)
    /\ Len(out.val[1]) > Len(SplitMarker(op))

(***************************************************************************)
(* Reference notions for the text helpers.                                 *)
(***************************************************************************)

Entities == {entAmp, entLt, entGt, entQuot, entApos}

EntityChar(e) ==
    IF e = entAmp THEN "&" ELSE IF e = entLt THEN "<" ELSE IF e = entGt THEN ">"
    ELSE IF e = entQuot THEN "\"" ELSE "'"

\* one pass over the input: a reference is replaced where it stands in the
\* input, and what a replacement produced is never looked at again
RECURSIVE SinglePassFrom(_, _)
SinglePassFrom(s, i) ==
    IF i >= Len(s) THEN <<>>
    ELSE IF \E e \in Entities : StartsWithAt(s, e, i)
    THEN LET e == CHOOSE x \in Entities : StartsWithAt(s, x, i)
         IN  <<EntityChar(e)>> \o SinglePassFrom(s, i + Len(e))
    ELSE <<s[i + 1]>> \o SinglePassFrom(s, i + 1)

SinglePassDecode(s) == SinglePassFrom(s, 0)

HasEntity(s) == \E e \in Entities : Occurrences(s, e) # {}

HasWhitespaceRun(s) ==
    \E i \in 1..(Len(s) - 1) : s[i] \in Whitespace /\ s[i + 1] \in Whitespace

HasOuterWhitespace(s) ==
    s # <<>> /\ (s[1] \in Whitespace \/ s[Len(s)] \in Whitespace)

\* the value of the first maximal run of decimal digits of s, 0 without a digit
RECURSIVE DigitsValue(_, _, _)
DigitsValue(s, i, acc) ==
    IF i > Len(s) \/ ~IsDigit(s[i]) THEN acc
    ELSE DigitsValue(s, i + 1, acc * 10 + DigitValue(s[i]))

RECURSIVE FirstNumber(_, _)
FirstNumber(s, i) ==
    IF i > Len(s) THEN 0
    ELSE IF IsDigit(s[i]) THEN DigitsValue(s, i, 0)
    ELSE FirstNumber(s, i + 1)

\* C6: decodeHtmlEntities is a single pass: every reference of the input becomes
\* its character and no replacement is decoded again ("&amp;lt;" gives "&lt;").
C6_DecodeIsSinglePass ==
    (op = "decodeHtmlEntities" /\ pc = "done") => out.val = SinglePassDecode(html)

\* C7 as stated: normalizeText(normalizeText(x)) = normalizeText(x) for every x.
C7_NormalizeIdempotent ==
    (op = "normalizeText" /\ pc = "done") => NormalizeText(out.val) = out.val

\* C7 amended: normalizeText(normalizeText(x)) = normalizeText(x) for every x whose
\* normalizeText(x) holds none of the five references.
C7_NormalizeIdempotentOnDecoded ==
    (op = "normalizeText" /\ pc = "done" /\ ~HasEntity(out.val))
    => NormalizeText(out.val) = out.val

\* C7 witness: a text with a reference and a run of white space was normalized
\* to a text without references
C7_Witness ==
    /\ op = "normalizeText"
    /\ pc = "done"
    /\ HasEntity(html)
    /\ HasWhitespaceRun(html)
    /\ ~HasEntity(out.val)
    /\ out.val # <<>>

\* C9 as stated: the count is the value of the first maximal run of digits of
\* the text that remains once the tags are stripped, 0 when that text has no digit.
C9_CountIsFirstRunOfStrippedText ==
    (op = "parseCountFromHtml" /\ pc = "done")
    => out.val = FirstNumber(StripTags(html), 1)

\* C9 amended: parseCountFromHtml returns a natural number for every input: the
\* value of the first maximal run of digits of the text that remains once the
\* tags are stripped and the five references are decoded, 0 when that text has
\* no digit; "<span>Qty</span> 12 units" gives 12 and "no numbers" gives 0.
C9_CountIsFirstRunOfDecodedText ==
    (op = "parseCountFromHtml" /\ pc = "done")
    => /\ out.val \in Nat
       /\ out.val = FirstNumber(DecodeHtmlEntities(StripTags(html)), 1)
       /\ html = exampleQty => out.val = 12
       /\ html = exampleNoNumbers => out.val = 0

\* C9 witness: 12 was read although the first digit of the input, inside a tag,
\* is another one
C9_Witness ==
    /\ op = "parseCountFromHtml"
    /\ pc = "done"
    /\ out.val = 12
    /\ FirstNumber(html, 1) = 3

(***************************************************************************)
(* Reference notions for the listing, read off the text alone.             *)
(***************************************************************************)

\* the k-th of the n sections that the occurrences of marker cut s into
SectionOf(s, marker, k) ==
    LET occ == Occurrences(s, marker)
    IN  Slice(s, Nth(occ, k),
              IF k = Cardinality(occ) THEN Len(s) ELSE Nth(occ, k + 1))

CardCount(s) == Cardinality(Occurrences(s, cardMarker))

\* s holds an id attribute: data-blueprint-id=", one or more digits, "
HasBlueprintId(s) ==
    \E p \in Occurrences(s, idAttrPrefix) :
        \E e \in (p + Len(idAttrPrefix) + 1)..(Len(s) - 1) :
            /\ \A j \in (p + Len(idAttrPrefix) + 1)..e : IsDigit(s[j])
            /\ s[e + 1] = "\""

ListingDone == op = "searchBlueprints" /\ pc = "done"
CardDone == op = "parseBlueprintCard" /\ pc = "done"

\* C4: a listing with N card markers yields at most N records, and the records
\* are the parses of some of the N sections, taken in the order of the sections.
C4_RecordsAreOrderedSubsequence ==
    ListingDone =>
        LET n == CardCount(html)
            m == Len(out.val)
        IN  /\ m <= n
            /\ \E f \in [1..m -> 1..n] :
                  /\ \A j, k \in 1..m : j < k => f[j] < f[k]
                  /\ \A k \in 1..m :
                        ParseBlueprintCard(SectionOf(html, cardMarker, f[k]))
                            = Some(out.val[k])

\* C4 witness: three cards, the middle one dropped, two different records kept
C4_Witness ==
    /\ ListingDone
    /\ CardCount(html) = 3
    /\ Len(out.val) = 2
    /\ out.val[1].id # out.val[2].id
    /\ ~HasBlueprintId(SectionOf(html, cardMarker, 2))

\* C5: a record always has a non-empty id of digits; a card section yields a
\* record exactly when it holds an id attribute, so a section without one adds
\* nothing to the listing; a card without name, author, tag list or cover link
\* still yields its record, with that field empty.
C5_RecordsHaveAnId ==
    /\ CardDone =>
          /\ out.found = HasBlueprintId(html)
          /\ out.found =>
                /\ out.val.id # <<>>
                /\ \A k \in 1..Len(out.val.id) : IsDigit(out.val.id[k])
                /\ Occurrences(html, h2Open) = {} => out.val.name = <<>>
                /\ Occurrences(html, byCue) = {} => out.val.author = <<>>
                /\ Occurrences(html, cardTagsMarker) = {} => out.val.tags = <<>>
                /\ Occurrences(html, coverMarker) = {} => out.val.url = <<>>
    /\ ListingDone =>
          /\ \A k \in 1..Len(out.val) : out.val[k].id # <<>>
          /\ Len(out.val) =
                Cardinality({k \in 1..CardCount(html) :
                                HasBlueprintId(SectionOf(html, cardMarker, k))})

\* C5 witness: of two cards, the one with id, name and author gave the only
\* record and the one without id gave none
C5_Witness ==
    /\ ListingDone
    /\ CardCount(html) = 2
    /\ Len(out.val) = 1
    /\ out.val[1].name # <<>>
    /\ out.val[1].tags = <<>>
    /\ ~HasBlueprintId(SectionOf(html, cardMarker, 2))

(***************************************************************************)
(* Claims about the callers of the region scan and about the records.      *)
(***************************************************************************)

\* the marker of o is missing from s, or no closing tag after it brings the
\* depth back to zero
RegionMissing(o, s) ==
    Occurrences(s, RegionMarker(o)) = {} \/ ZeroingCloses(o, s) = {}

\* C2: when the marker is absent or the depth never returns to zero, the region
\* scan ends (it does not throw) with null, and extractBlueprintRequirements and
\* extractBlueprintTagNames return the empty sequence.
C2_MissingRegionGivesEmpty ==
    /\ pc # "failed"
    /\ (RegionDone /\ RegionMissing(op, html)) => ~out.found
    /\ (/\ op = "extractBlueprintRequirements"
        /\ pc = "done"
        /\ RegionMissing("extractRequirementsListHtml", html))
       => /\ ~ExtractRequirementsListHtml(html).found
          /\ out.val = <<>>
    /\ (/\ op = "extractBlueprintTagNames"
        /\ pc = "done"
        /\ RegionMissing("extractBlueprintTagSection", html))
       => /\ ~ExtractBlueprintTagSection(html).found
          /\ out.val = <<>>

\* C2 witness: a requirements list with a named requirement but no closing tag
\* gave no requirement
C2_Witness ==
    /\ op = "extractBlueprintRequirements"
    /\ pc = "done"
    /\ Occurrences(html, listMarker) # {}
    /\ ZeroingCloses("extractRequirementsListHtml", html) = {}
    /\ Occurrences(html, entityIron) # {}
    /\ out.val = <<>>

DetailsDone == op = "fetchBlueprintDetails" /\ pc = "done"

\* no reference left, no run of white space, no white space at either end
CleanText(t) == ~HasEntity(t) /\ ~HasWhitespaceRun(t) /\ ~HasOuterWhitespace(t)

CleanCard(c) ==
    /\ CleanText(c.name)
    /\ CleanText(c.author)
    /\ \A k \in 1..Len(c.tags) : CleanText(c.tags[k])

\* C8: every text field of every record of the listing and of the detail parse
\* (card name, author and tags; detail tags and description; requirement names
\* and recipe names) holds none of the five references, no run of two or more
\* white-space characters and no white space at its ends.
C8_TextFieldsAreClean ==
    /\ ListingDone => \A k \in 1..Len(out.val) : CleanCard(out.val[k])
    /\ (CardDone /\ out.found) => CleanCard(out.val)
    /\ DetailsDone =>
          /\ \A k \in 1..Len(out.val.tags) : CleanText(out.val.tags[k])
          /\ CleanText(out.val.description)
          /\ \A k \in 1..Len(out.val.requirements) :
                LET r == out.val.requirements[k]
                IN  /\ CleanText(r.name)
                    /\ \A j \in 1..Len(r.recipes) : CleanText(r.recipes[j].name)

RecipeOk(r) == r.name # <<>> /\ r.count \in Nat /\ r.count >= 1

\* C10: every recipe entry returned has a non-empty name and a count of at least
\* 1; the entries returned are exactly the recipe items that have both, an empty
\* name or a count of 0 each dropping the item, in the order of the items.
C10_RecipesNamedAndCounted ==
    /\ (op = "extractRecipeEntries" /\ pc = "done") =>
          LET items == RecipeItemsFrom(html, 0)
              n == Len(items)
              m == Len(out.val)
          IN  /\ \A k \in 1..m : RecipeOk(out.val[k])
              /\ m = Cardinality({i \in 1..n : RecipeOk(items[i])})
              /\ \E f \in [1..m -> 1..n] :
                    /\ \A j, k \in 1..m : j < k => f[j] < f[k]
                    /\ \A k \in 1..m : out.val[k] = items[f[k]]
    /\ DetailsDone =>
          \A k \in 1..Len(out.val.requirements) :
              \A j \in 1..Len(out.val.requirements[k].recipes) :
                  RecipeOk(out.val.requirements[k].recipes[j])

\* C10 witness: of three recipe items, the one without a number and the one
\* without a name were dropped and the one between them was kept
C10_Witness ==
    /\ op = "extractRecipeEntries"
    /\ pc = "done"
    /\ html = liZero \o liCast \o liNameless
    /\ Len(out.val) = 1
    /\ out.val[1].count = 13

(***************************************************************************)
(* Claims about one requirement entry.                                     *)
(***************************************************************************)

EntityDone == op = "parseRequirementEntity" /\ pc = "done"

\* the name of a section: the first non-empty tooltip after the tally class,
\* decoded and trimmed, or "" when there is none
EntityName(s) ==
    LET m == MatchEntityName(s)
    IN  IF m.found THEN Trim(DecodeHtmlEntities(m.val)) ELSE <<>>

\* the count of a section: the number of its tally, or 0
EntityCount(s) ==
    LET m == MatchTally(s)
    IN  IF m.found THEN ParseCountFromHtml(m.val) ELSE 0

\* C11: a section of the requirements list gives a requirement if and only if
\* its name is not empty; the requirement then has that name and the count of
\* the tally, 0 included, and no recipes when the section has no recipes list;
\* the requirements of a detail page are as many as the sections with a name.
\* The section "Iron Ingot", "Qty: 5" without a recipes list gives
\* {name: "Iron Ingot", count: 5, recipes: []}.
C11_RequirementIffNamed ==
    /\ EntityDone =>
          /\ out.found <=> EntityName(html) # <<>>
          /\ out.found =>
                /\ out.val.name = EntityName(html)
                /\ out.val.count = EntityCount(html)
                /\ Occurrences(html, recipesMarker) = {} => out.val.recipes = <<>>
          /\ html = exampleEntity =>
                out = Some([name |-> <<"I","r","o","n"," ","I","n","g","o","t">>,
                            count |-> 5, recipes |-> <<>>])
    /\ (DetailsDone /\ ~RegionMissing("extractRequirementsListHtml", html)) =>
          LET list == Slice(html, RegionFrom("extractRequirementsListHtml", html),
                            Min(ZeroingCloses("extractRequirementsListHtml", html)))
              n == Cardinality(Occurrences(list, entityMarker))
          IN  Len(out.val.requirements) =
                 Cardinality({k \in 1..n :
                                 EntityName(SectionOf(list, entityMarker, k)) # <<>>})

\* C11 witness: a named section without a number and without a recipes list
\* gave a requirement with the count 0 and no recipes
C11_Witness ==
    /\ EntityDone
    /\ html = entityMarker \o tallyNone \o imgIron
    /\ out.found
    /\ out.val.count = 0
    /\ out.val.recipes = <<>>

\* a section whose name is blank was dropped although it holds a recipes list
\* with a recipe
C11_DroppedWithRecipes ==
    /\ EntityDone
    /\ html = entityMarker \o tallyFive \o imgBlank \o recipesBlock
    /\ ~out.found

\* the first closing tag after position start at which the depth, 1 at start,
\* +1 for every opening prefix and -1 for every closing tag since, is 1
BalancedEnd(s, start, open, close) ==
    LET depthAt(p) ==
            1 + Cardinality({i \in Occurrences(s, open) : start <= i /\ i < p})
              - Cardinality({i \in Occurrences(s, close) : start <= i /\ i < p})
        ends == {c \in Occurrences(s, close) : start <= c /\ depthAt(c) = 1}
    IN  IF ends = {} THEN -1 ELSE Min(ends)

\* the recipes list of a section up to its own closing tag
BalancedRecipes(s) ==
    LET start == Min(Occurrences(s, recipesMarker)) + Len(recipesMarker)
    IN  Slice(s, start, BalancedEnd(s, start, ulOpen, ulClose))

\* C12: the recipes of a requirement are the recipe entries of its recipes list
\* taken up to the closing tag that matches the list, nested lists counted, and
\* not up to the first closing tag inside it.
C12_RecipesRegionIsBalanced ==
    (/\ EntityDone
     /\ out.found
     /\ Occurrences(html, recipesMarker) # {}
     /\ BalancedEnd(html, Min(Occurrences(html, recipesMarker)) + Len(recipesMarker),
                    ulOpen, ulClose) # -1)
    => out.val.recipes = ExtractRecipeEntries(BalancedRecipes(html))

(***************************************************************************)
(* Claims about the detail parse as a whole.                               *)
(***************************************************************************)

\* C13: with includeBlueprint false the blueprint field is the empty string and
\* extractBlueprintText is not called, whatever the page holds; requirements,
\* tags and description are what they are for the same page with the flag true.
C13_FlagOffSkipsPayload ==
    (DetailsDone /\ ~includeBlueprint) =>
        /\ out.val.blueprint = <<>>
        /\ \A k \in 1..Len(calls) : calls[k] # "extractBlueprintText"
        /\ LET withFlag == ParseDetails(html, TRUE)
           IN  /\ out.val.requirements = withFlag.requirements
               /\ out.val.tags = withFlag.tags
               /\ out.val.description = withFlag.description

\* C13 witness: a page with a payload, a requirement and a description, parsed
\* with the flag false
C13_Witness ==
    /\ DetailsDone
    /\ ~includeBlueprint
    /\ Occurrences(html, textareaBlock) # {}
    /\ ParseDetails(html, TRUE).blueprint # <<>>
    /\ out.val.blueprint = <<>>
    /\ out.val.requirements # <<>>
    /\ out.val.description # <<>>

\* the payload, tags and description parts a detail page of the model is made of
PayloadParts == {<<>>, textareaBlock}
TagsParts == {<<>>, tagSectionMarker \o tagItem \o divClose, tagSectionMarker \o tagItem}
DescriptionParts == {<<>>, descriptionBlock}

\* P holds of every way to cut s into a payload part, a requirements part, a
\* tags part and a description part
ForAllParts(s, P(_, _, _, _)) ==
    \A ta \in PayloadParts : StartsWithAt(s, ta, 0) =>
        \A req \in DetailReqParts : StartsWithAt(s, req, Len(ta)) =>
            \A tg \in TagsParts : StartsWithAt(s, tg, Len(ta) + Len(req)) =>
                \A ds \in DescriptionParts :
                    s = ta \o req \o tg \o ds => P(ta, req, tg, ds)

\* C14: a detail parse whose fetch succeeded always returns a record; each of
\* its four fields is what its own extraction gives on the page, the empty
\* default when its structure is not found, whatever the other three find:
\* each field is the one that the page's own part alone gives.
C14_ExtractionsIndependent ==
    /\ (op = "fetchBlueprintDetails" /\ responseOk /\ pc # "start") =>
          pc = "done" /\ out.found
    /\ (DetailsDone /\ includeBlueprint) =>
          /\ out.val.blueprint = ExtractBlueprintText(html)
          /\ Occurrences(html, textareaOpen) = {} => out.val.blueprint = <<>>
    /\ DetailsDone =>
          /\ out.val.requirements = ExtractBlueprintRequirements(html)
          /\ out.val.tags = ExtractBlueprintTagNames(html)
          /\ out.val.description = ExtractBlueprintDescription(html)
          /\ RegionMissing("extractRequirementsListHtml", html)
                => out.val.requirements = <<>>
          /\ RegionMissing("extractBlueprintTagSection", html) => out.val.tags = <<>>
          /\ Occurrences(html, trixMarker) = {} => out.val.description = <<>>
          /\ LET OwnPart(ta, req, tg, ds) ==
                    /\ includeBlueprint => out.val.blueprint = ExtractBlueprintText(ta)
                    /\ out.val.requirements = ExtractBlueprintRequirements(req)
                    /\ out.val.tags = ExtractBlueprintTagNames(tg)
                    /\ out.val.description = ExtractBlueprintDescription(ds)
             IN  ForAllParts(html, OwnPart)

\* C14 witness: a page without requirements list and with an unclosed tags
\* section gave the payload and the description all the same
C14_Witness ==
    /\ DetailsDone
    /\ includeBlueprint
    /\ RegionMissing("extractRequirementsListHtml", html)
    /\ RegionMissing("extractBlueprintTagSection", html)
    /\ Occurrences(html, tagSectionMarker) # {}
    /\ out.val.requirements = <<>>
    /\ out.val.tags = <<>>
    /\ out.val.blueprint # <<>>
    /\ out.val.description # <<>>

(***************************************************************************)
(* Claims about the routes and the cache store.                            *)
(***************************************************************************)

C16_ScraperOnlyOnMiss ==
    \A r \in Requests :
        /\ reqs[r].calls # <<>> => ~reqs[r].live /\ ~reqs[r].cached.found
        /\ reqs[r].live =>
              /\ reqs[r].cached.found
              /\ reqs[r].pc = "done"
              /\ reqs[r].status = 200
              /\ reqs[r].body = reqs[r].cached
              /\ reqs[r].response = "none"
              /\ reqs[r].calls = <<>>

\* C16 witness: a request was answered from the entry that an earlier request
\* for the same key had fetched
C16_Witness ==
    \E r, r2 \in Requests :
        /\ reqs[r].response = "ok"
        /\ reqs[r2].key = reqs[r].key
        /\ reqs[r2].live
        /\ reqs[r2].status = 200
        /\ reqs[r2].calls = <<>>
        /\ reqs[r2].body = reqs[r].body

\* C17: a get of k returns the value of the last set of k (not followed by a
\* delete or clear) when the time is at most that set's time plus its ttl, and
\* undefined when the time is later; a get after that time removes the entry;
\* a set replaces the value and the expiry time of the entry.
C17_CacheExpiry ==
    /\ got.op = "get" =>
          LET w == written[got.key]
          IN  /\ (w.found /\ got.at <= w.val.at + w.val.ttlMs)
                    => got.value = Some(w.val.value)
              /\ (w.found /\ got.at > w.val.at + w.val.ttlMs)
                    => got.value = Null /\ ~entries[TestCache][got.key].found
    /\ got.op = "set" =>
          LET w == written[got.key]
          IN  entries[TestCache][got.key] =
                 Some([value |-> got.value.val, expiresAt |-> got.at + w.val.ttlMs])

\* C17 witness: the value set anew with another ttl was returned at the end of
\* its time to live
C17_Witness ==
    /\ got.op = "get"
    /\ written[got.key].found
    /\ written[got.key].val.at > 0
    /\ written[got.key].val.ttlMs > 0
    /\ got.at = written[got.key].val.at + written[got.key].val.ttlMs
    /\ got.value = Some(written[got.key].val.value)

\* a get after the time to live returned undefined and removed the entry
C17_Expired ==
    /\ got.op = "get"
    /\ written[got.key].found
    /\ got.at > written[got.key].val.at + written[got.key].val.ttlMs
    /\ got.value = Null
    /\ ~entries[TestCache][got.key].found

\* a request that ended with the status 400 or 500
Failed(req) == req.pc = "done" /\ req.status \in {400, 500}

\* the step in which request r ends with the status 400 or 500 leaves every
\* entry of both caches as it was
FailingStepKeepsEntries ==
    \A r \in Requests :
        (~Failed(reqs[r]) /\ Failed(reqs'[r])) => entries' = entries

\* an entry holds the result of a scraper call that succeeded for its key
EntriesComeFromScraper ==
    \A c \in CacheNames : \A k \in KeysOf(c) :
        entries[c][k].found =>
            \E r \in Requests :
                /\ reqs[r].key = k
                /\ reqs[r].response = "ok"
                /\ reqs[r].body = Some(entries[c][k].val.value)

\* C21 as stated: a request that ends with the status 400 or 500 has in none
\* of its steps created, replaced or removed an entry of a cache, and every
\* entry holds the result of a scraper call that succeeded for its key.
C21_FailedRequestLeavesCaches ==
    /\ [](\A r \in Requests : Failed(reqs[r]) => ~reqs[r].removed)
    /\ [][FailingStepKeepsEntries]_vars
    /\ []EntriesComeFromScraper

\* C21 amended: a request that ends with the status 400 has touched no cache;
\* a request that ends with the status 500 has created or replaced no entry
\* and has removed at most the entry of its own key, in its lookup, when the
\* time to live of that entry had passed; every entry holds the result of a
\* scraper call that succeeded for its key.
C21_FailedRequestKeepsLiveEntries ==
    /\ [](\A r \in Requests :
             Failed(reqs[r]) =>
                 /\ reqs[r].status = 400 => ~reqs[r].removed
                 /\ reqs[r].removed => ~reqs[r].live /\ ~reqs[r].cached.found)
    /\ [][FailingStepKeepsEntries]_vars
    /\ []EntriesComeFromScraper

\* C21 witness: a request whose lookup removed an entry past its time ended
\* with the status 500 after an earlier request for the same key had succeeded
C21_Witness ==
    \E r, r2 \in Requests :
        /\ reqs[r].status = 500
        /\ reqs[r].removed
        /\ reqs[r2].key = reqs[r].key
        /\ reqs[r2].response = "ok"
        /\ ~entries[CacheOf(reqs[r].route)][reqs[r].key].found

\* a request failed while the entry that another request had set for its key
\* was live, and the entry is still there
C21_FailedBesideLiveEntry ==
    \E r \in Requests :
        /\ reqs[r].status = 500
        /\ ~reqs[r].removed
        /\ entries[CacheOf(reqs[r].route)][reqs[r].key].found

\* a search request that went past the check of its search parameter
Searching(req) == req.route = "search" /\ req.pc # "idle" /\ req.status # 400

\* C22: two search requests whose (search, author, tags) differ are given
\* different cache keys, and a search request that is answered from the cache
\* is answered with the result of a scraper call made for its own query.
C22_SearchKeysDoNotCollide ==
    /\ \A r, r2 \in Requests :
           (Searching(reqs[r]) /\ Searching(reqs[r2])
            /\ reqs[r].query # reqs[r2].query)
           => reqs[r].key # reqs[r2].key
    /\ \A r \in Requests :
           (Searching(reqs[r]) /\ reqs[r].cached.found) =>
               \E r2 \in Requests :
                   /\ reqs[r2].query = reqs[r].query
                   /\ reqs[r2].response = "ok"
                   /\ reqs[r2].body = reqs[r].cached

\* a search request was answered, without a scraper call, with the result
\* that a request with another query had fetched
C22_ServedForOtherQuery ==
    \E r, r2 \in Requests :
        /\ Searching(reqs[r]) /\ Searching(reqs[r2])
        /\ reqs[r].query # reqs[r2].query
        /\ reqs[r].response = "ok"
        /\ reqs[r].body.val # <<>>
        /\ reqs[r2].cached = reqs[r].body
        /\ reqs[r2].status = 200
        /\ reqs[r2].body = reqs[r].body
        /\ reqs[r2].calls = <<>>

\* cache c holds an entry of key k whose time to live has not passed
LiveEntry(c, k) == entries[c][k].found /\ now <= entries[c][k].val.expiresAt

\* the step in which a request sets the entry of its key is taken only when
\* the cache holds no live entry of that key
SetOnlyWithoutLiveEntry ==
    \A r \in Requests :
        (reqs[r].pc = "fetching" /\ reqs'[r].response = "ok")
        => ~LiveEntry(CacheOf(reqs[r].route), reqs[r].key)

\* C23: in every interleaving of the handlers the cache set of a key is made
\* only when the key has no live entry, and two scraper calls for one key are
\* under way at once only if an entry of the key was set, and has expired,
\* between their lookups.
C23_LiveEntryNeverOverwritten ==
    /\ [][SetOnlyWithoutLiveEntry]_vars
    /\ [](\A r, r2 \in Requests :
             (r # r2 /\ reqs[r].pc = "fetching" /\ reqs[r2].pc = "fetching"
              /\ reqs[r].key = reqs[r2].key)
             => written[reqs[r].key].found)

\* two requests for one key both called the scraper, and the result of the
\* one replaced the live entry that held the other result
C23_Overwritten ==
    \E r, r2 \in Requests :
        /\ r # r2
        /\ reqs[r].key = reqs[r2].key
        /\ reqs[r].response = "ok" /\ reqs[r2].response = "ok"
        /\ ~reqs[r].removed /\ ~reqs[r2].removed
        /\ reqs[r].body # reqs[r2].body
        /\ got.op = "set" /\ got.value = reqs[r2].body /\ got.at = 0
        /\ LiveEntry(CacheOf(reqs[r].route), reqs[r].key)

(***************************************************************************)
(* Claims about the steps of the scanning loops.                           *)
(***************************************************************************)

\* the positions the balanced-region scan compares in the iteration to come
NextOpenAt(o, s, c) == IndexOf(s, RegionOpen(o), c)
NextCloseAt(o, s, c) == IndexOf(s, RegionClose(o), c)

\* C18 (the case of the claim does not arise): in no iteration of the
\* balanced-region scan are the next opening prefix and the next closing tag
\* found at the same position.
C18_PositionsNeverCoincide ==
    (op \in RegionOps /\ pc = "scan" /\ cursor < Len(html)
     /\ NextCloseAt(op, html, cursor) # -1)
    => NextOpenAt(op, html, cursor) # NextCloseAt(op, html, cursor)

ScanOps == RegionOps \cup SplitOps

\* C19: in the balanced-region scan every iteration that goes on leaves the
\* cursor further right; in the marker splitter every iteration leaves the
\* cursor further right or at -1; and every scan comes to its end, with a
\* region, a list of sections or not-found.
C19_ScansTerminate ==
    /\ [][(op \in ScanOps /\ pc = "scan" /\ pc' = "scan")
            => (cursor' > cursor \/ (op \in SplitOps /\ cursor' = -1))]_vars
    /\ <>(op \in ScanOps /\ pc = "done")

\* C19 witness: a scan went past a nested opening prefix and its closing tag
\* and ended at the end of the text without a region
C19_Witness ==
    /\ RegionDone
    /\ ~out.found
    /\ depth = 1
    /\ cursor > from + OpenSkip(op) + CloseSkip(op)
    /\ Occurrences(html, RegionClose(op)) # {}

\* the opening prefixes and the closing tags that start before position p of r
OpensBefore(o, r, p) == Cardinality({i \in Occurrences(r, RegionOpen(o)) : i < p})
ClosesBefore(o, r, p) == Cardinality({i \in Occurrences(r, RegionClose(o)) : i < p})

\* C20: a region that is returned holds as many opening prefixes as closing
\* tags, and no prefix of it holds more closing tags than opening prefixes;
\* while the scan goes on its depth is at least 1.
C20_RegionIsBalanced ==
    /\ (op \in RegionOps /\ pc = "scan") => depth >= 1
    /\ (RegionDone /\ out.found) =>
          /\ OpensBefore(op, out.val, Len(out.val))
                = ClosesBefore(op, out.val, Len(out.val))
          /\ \A p \in 0..Len(out.val) :
                ClosesBefore(op, out.val, p) <= OpensBefore(op, out.val, p)

\* C20 witness: a region was returned that holds a nested list with its
\* closing tag, and more closing tags follow the one that ended the region
C20_Witness ==
    /\ RegionDone
    /\ out.found
    /\ OpensBefore(op, out.val, Len(out.val)) = 1
    /\ ClosesBefore(op, out.val, Len(out.val)) = 1
    /\ Cardinality(Occurrences(html, RegionClose(op))) = 3

=============================================================================

